---- MODULE Spec2Model ----
(***************************************************************************)
(* App Store Connect client of src/app_store_api.py: the cached JWT        *)
(* (generate_jwt_token), the retrying request loop (_make_request) and the *)
(* tester invitation workflow (invite_tester); the command line of the    *)
(* same file; and StatusChecker and ReportGenerator of                     *)
(* src/status_utils.py.                                                    *)
(*                                                                         *)
(* Time is counted in whole seconds of datetime.utcnow().  One Attempt     *)
(* step is one iteration of the loop of _make_request: token, HTTP call,   *)
(* classification of the response and, for a retry, the backoff sleep.     *)
(***************************************************************************)
EXTENDS Integers, Sequences, FiniteSets, TLC

\* ------------------------------------------------------------------ bounds
\* last instant at which idle time may pass or a direct request may start
MaxTime == 2300
\* longest list of testers or of e-mail addresses handed to a batch
MaxBatch == 2
\* number of direct _make_request calls started in one behaviour
MaxCalls == 2
\* last instant at which an invitation may start
MaxInviteStart == 0
\* longest list of statuses handed to generate_report
MaxStatuses == 3
\* longest list of addresses given to the command line
MaxAddresses == 2

\* ------------------------------------------------------- program constants
TOKEN_EXPIRY_MINUTES == 20
\* timedelta(minutes=1) of the cache check, in seconds
RefreshMarginSeconds == 60
\* RetryConfig() defaults; the client never builds another configuration
max_retries == 3
base_delay == 1
max_delay == 60

\* self.current_token = None, and the local token before the first attempt
NoToken == [id |-> 0, expiry |-> 0, exp |-> 0]
\* self.token_expires_at = None
NoExpiry == -1
\* status_code = None of AppStoreConnectAPIError
NoStatus == 0

Min(a, b) == IF a < b THEN a ELSE b

\* ------------------------------------------------------ the remote's answers
\* status codes the remote can answer with: every code the classification
\* names, two more 2xx codes (202 Accepted, 204 No Content), 409 and 500
Statuses == {200, 201, 202, 204, 401, 403, 404, 409, 429, 500}
\* response body: not JSON at all, a JSON document without data, or a JSON
\* document whose data holds a resource
Bodies == {"invalid", "empty", "item"}
NetworkFailure == [status |-> NoStatus, body |-> "invalid"]
\* a resource comes with 200 and 201 only, and 204 has no content
HttpResponses ==
    {r \in [status : Statuses, body : Bodies] :
        /\ r.body = "item" => r.status \in {200, 201}
        /\ r.status = 204 => r.body = "invalid"}
\* what requests.request can produce for one call: a response, or a
\* requests.RequestException (connection reset, timeout)
Responses == HttpResponses \cup {NetworkFailure}

Endpoints == {"GET /apps", "GET /builds", "GET /betaTesters",
              "POST /betaTesters", "POST /betaTesters/id/relationships/apps",
              "POST /builds/id/relationships/individualTesters",
              "GET /betaTesters/id/apps", "GET /builds/id"}
\* the request of get_app_id called on its own
DirectEndpoints == {"GET /apps"}

VARIABLES
    utc_offset,        \* the host's local time minus UTC, seconds
    lk,                \* a lookup of the app or of its latest build
    th,                \* threads inside generate_jwt_token
    rep,               \* ReportGenerator: a report made, saved and read back
    cli,               \* the command line's email validation and default mode
    wt,                \* StatusChecker.wait_for_build_ready: the polling loop
    credentials,       \* what the credentials directory holds
    client,            \* the AppStoreConnectAPI object: construction, fields
    batch,             \* invite_multiple_testers: position, locals, results
    chk,               \* StatusChecker.check_invitation_status: the same
    now,               \* datetime.utcnow(), seconds
    private_key,       \* self.private_key, loaded by the constructor
    current_token,     \* self.current_token
    token_expires_at,  \* self.token_expires_at
    signCount,         \* number of jwt.encode signing operations so far
    jwt_ret,           \* what the last generate_jwt_token call returned
    rq_pc,             \* _make_request: idle / running / returned / raised / fell_out
    rq_endpoint,       \* method and endpoint of the current call
    attempt,           \* loop variable of _make_request
    token,             \* local variable token of _make_request
    rq_http,           \* requests.request calls made by the current call
    rq_last,           \* the latest loop iteration of the current call
    rq_result,         \* the returned body, or the raised error
    calls,             \* direct _make_request calls started so far
    iv_pc,             \* invite_tester: position
    iv                 \* invite_tester: locals and the requests it has sent

vars == <<utc_offset, lk, th, rep, cli, wt, credentials, client, batch, chk, now, private_key, current_token, token_expires_at, signCount, jwt_ret,
          rq_pc, rq_endpoint, attempt, token, rq_http, rq_last, rq_result,
          calls, iv_pc, iv>>

clientVars == <<credentials, client, private_key>>
moreVars == <<utc_offset, lk, th, rep, cli, wt>>
callerVars == <<batch, chk>>
tokenVars == <<current_token, token_expires_at, signCount, jwt_ret>>
rqVars == <<rq_pc, rq_endpoint, attempt, token, rq_http, rq_last, rq_result, calls>>
ivVars == <<iv_pc, iv>>

\* ------------------------------------------------------- generate_jwt_token
\* the elliptic-curve keys the constructor accepts: one jwt.encode signs
\* ES256 tokens with, and one it raises on (a curve it refuses)
PrivateKeys == {"signs", "refused"}

\* jwt.encode(payload, key, algorithm='ES256') returns a token
CanSign(key) == key = "signs"

\* ----------------------------------------------------------------- __init__
\* the file at APP_STORE_API_PRIVATE_KEY_PATH: none, bytes load_pem_private_key
\* raises on, an RSA key, or an elliptic-curve key (one of PrivateKeys)
KeyFiles == {"absent", "unparsable", "rsa"} \cup PrivateKeys

\* the credentials directory: whether api_credentials.env exists, which of
\* the three settings have a value after load_dotenv, and the key file
CredentialDirs ==
    [env_file : BOOLEAN, key_id : BOOLEAN, issuer_id : BOOLEAN,
     key_path : BOOLEAN, key_file : KeyFiles]

\* the fields __init__ sets to None before it loads anything
NewClient ==
    [pc |-> "new", api_key_id |-> FALSE, issuer_id |-> FALSE,
     private_key_path |-> FALSE, error |-> "none"]

\* a key-type check that lets every parsed key through
IsEllipticCurve_AnyKey(key) == key \in PrivateKeys \cup {"rsa"}

\* isinstance(self.private_key, ec.EllipticCurvePrivateKey)
IsEllipticCurve(key) == key \in PrivateKeys

\* _load_credentials: the file must exist and all three settings be set
LoadCredentials(dir) ==
    IF ~dir.env_file
    THEN [ok |-> FALSE, error |-> "credentials_file_not_found",
          api_key_id |-> FALSE, issuer_id |-> FALSE, private_key_path |-> FALSE]
    ELSE [ok |-> dir.key_id /\ dir.issuer_id /\ dir.key_path,
          error |-> IF dir.key_id /\ dir.issuer_id /\ dir.key_path
                    THEN "none" ELSE "missing_credentials",
          api_key_id |-> dir.key_id, issuer_id |-> dir.issuer_id,
          private_key_path |-> dir.key_path]

\* _load_private_key: the file must exist, parse, and hold an elliptic-curve
\* key; self.private_key is assigned before its type is checked
LoadPrivateKey(dir) ==
    IF dir.key_file = "absent"
    THEN [ok |-> FALSE, error |-> "key_file_not_found", private_key |-> "none"]
    ELSE IF dir.key_file = "unparsable"
    THEN [ok |-> FALSE, error |-> "load_failed", private_key |-> "none"]
    ELSE IF ~IsEllipticCurve(dir.key_file)
    THEN [ok |-> FALSE, error |-> "load_failed", private_key |-> dir.key_file]
    ELSE [ok |-> TRUE, error |-> "none", private_key |-> dir.key_file]

\* the client __init__ returns for a complete credentials directory
ConstructedClient ==
    [pc |-> "constructed", api_key_id |-> TRUE, issuer_id |-> TRUE,
     private_key_path |-> TRUE, error |-> "none"]

\* a cache check that never finds the cached token good enough
TokenStillValid_Never(cur, exp, t) == FALSE

\* the cache check without the minute of margin
TokenStillValid_NoMargin(cur, exp, t) ==
    cur # NoToken /\ exp # NoExpiry /\ t < exp

\* the cache check: a token is cached and now < token_expires_at - 1 minute
TokenStillValid(cur, exp, t) ==
    cur # NoToken /\ exp # NoExpiry /\ t < exp - RefreshMarginSeconds

\* 'exp': int(expiry.timestamp()), expiry being utcnow() + 20 minutes: a
\* datetime without tzinfo, which timestamp() reads as local time
ExpClaim(expiry) == expiry - utc_offset

\* generate_jwt_token called at time t with cache (cur, exp) after n signing
\* operations; signOk is whether jwt.encode returns a token
GenerateJwt(cur, exp, t, n, signOk) ==
    IF TokenStillValid(cur, exp, t)
    THEN [ok |-> TRUE, token |-> cur, cached |-> TRUE,
          current_token |-> cur, token_expires_at |-> exp, signs |-> n]
    ELSE IF signOk
    THEN LET expiry == t + TOKEN_EXPIRY_MINUTES * 60
             tok == [id |-> n + 1, expiry |-> expiry, exp |-> ExpClaim(expiry)]
         IN [ok |-> TRUE, token |-> tok, cached |-> FALSE,
             current_token |-> tok, token_expires_at |-> expiry, signs |-> n + 1]
    ELSE [ok |-> FALSE, token |-> NoToken, cached |-> FALSE,
          current_token |-> cur, token_expires_at |-> exp, signs |-> n]

\* what one generate_jwt_token call at time t did: the cache it found
\* (before, beforeExpiry), whether it returned (ok) or raised, the token it
\* returned, whether that was the cached one, and the seconds left before
\* the recorded expiry at that moment
JwtObservation(g, cur, exp, t) ==
    [called |-> TRUE, at |-> t, before |-> cur, beforeExpiry |-> exp,
     ok |-> g.ok, token |-> g.token, cached |-> g.cached,
     left |-> IF g.ok THEN g.token_expires_at - t ELSE 0]

NoObservation ==
    [called |-> FALSE, at |-> 0, before |-> NoToken, beforeExpiry |-> NoExpiry,
     ok |-> FALSE, token |-> NoToken, cached |-> FALSE, left |-> 0]

\* ------------------------------------------------------------ _make_request
\* the status-code chain with the 404 branch missing
Classify_NotFoundRetried(status) ==
    IF status = 200 \/ status = 201 THEN "success"
    ELSE IF status \in {401, 403} THEN "auth"
    ELSE IF status = 429 THEN "ratelimit"
    ELSE "other"

\* the branch of the status-code chain a response takes
Classify(status) ==
    IF status = 200 \/ status = 201 THEN "success"
    ELSE IF status \in {401, 403} THEN "auth"
    ELSE IF status = 404 THEN "notfound"
    ELSE IF status = 429 THEN "ratelimit"
    ELSE "other"

\* the retry test off by one
MayRetry_Inclusive(k) == k <= max_retries

\* the test "attempt < self.retry_config.max_retries" of the three retry paths
MayRetry(k) == k < max_retries

\* the rate-limit delay without its factor 2
RateLimitDelay_NotDoubled(k) == Min(base_delay * (2 ^ k), max_delay)

\* delay before the retry that follows a 429 at attempt k
RateLimitDelay(k) == Min(base_delay * (2 ^ k) * 2, max_delay)

\* delay before the retry that follows any other retryable status at attempt k
BackoffDelay(k) == Min(base_delay * (2 ^ k), max_delay)

\* a network retry that waits base_delay every time
NetworkDelay_Flat(k) == Min(base_delay, max_delay)

\* delay before the retry that follows a requests.RequestException at attempt k
NetworkDelay(k) == Min(base_delay * (2 ^ k), max_delay)

\* outcomes of one loop iteration
Return(body) ==
    [op |-> "return", body |-> body, kind |-> "none",
     status_code |-> NoStatus, response |-> "none", delay |-> 0]
Raise(kind, code, response) ==
    [op |-> "raise", body |-> "none", kind |-> kind,
     status_code |-> code, response |-> response, delay |-> 0]
Retry(kind, delay) ==
    [op |-> "retry", body |-> "none", kind |-> kind,
     status_code |-> NoStatus, response |-> "none", delay |-> delay]

\* the handler "except requests.RequestException" at attempt k
OnRequestException(k) ==
    IF MayRetry(k) THEN Retry("network", NetworkDelay(k))
    ELSE Raise("network", NoStatus, "none")

\* what the loop body does with the outcome of requests.request at attempt k.
\* response.json() of a body that is not JSON raises
\* requests.exceptions.JSONDecodeError, a RequestException, so the success
\* branch can end in the network handler; the error branches read the body
\* under their own try/except.
HandleResponse(resp, k) ==
    IF resp = NetworkFailure THEN OnRequestException(k)
    ELSE LET c == Classify(resp.status) IN
         IF c = "success"
         THEN IF resp.body = "invalid" THEN OnRequestException(k)
              ELSE Return(resp.body)
         ELSE IF c = "auth"
         THEN Raise("auth", resp.status,
                    IF resp.body = "invalid" THEN "none" ELSE "json")
         ELSE IF c = "notfound"
         THEN Raise("notfound", resp.status, "none")
         ELSE IF c = "ratelimit"
         THEN IF MayRetry(k) THEN Retry("ratelimit", RateLimitDelay(k))
              ELSE Raise("ratelimit", resp.status, "none")
         ELSE IF MayRetry(k) THEN Retry("status", BackoffDelay(k))
              ELSE Raise("status", resp.status,
                         IF resp.body = "invalid" THEN "text" ELSE "json")

\* the error generate_jwt_token raises when signing fails; it is not a
\* RequestException, so it leaves _make_request at once
TokenError == Raise("token", NoStatus, "none")

\* the token fetched once, before the loop, and sent again by every retry
RequestToken_FetchedOnce(k, held, fresh) == IF k = 0 THEN fresh ELSE held

\* the token an attempt sends: the one generate_jwt_token just returned
\* (held is the token of the previous attempt)
RequestToken(k, held, fresh) == fresh

NoAttempt ==
    [attempt |-> -1, http |-> FALSE, resp |-> NetworkFailure, op |-> "none",
     delay |-> 0, token |-> NoToken, left |-> 0]
NoResult == Raise("none", NoStatus, "none")

\* "for attempt in range(self.retry_config.max_retries + 1)"
InRange(k) == k < max_retries + 1

RequestDone == rq_pc \in {"returned", "raised", "fell_out"}

\* entry of _make_request(method, endpoint)
BeginRequest(ep) ==
    /\ rq_pc' = "running"
    /\ rq_endpoint' = ep
    /\ attempt' = 0
    /\ token' = NoToken
    /\ rq_http' = 0
    /\ rq_last' = NoAttempt
    /\ rq_result' = NoResult

\* one iteration of the loop of _make_request: generate_jwt_token, the HTTP
\* call answered by resp, the classification, and the sleep before a retry.
\* Leaving the loop by exhausting range() returns None ("fell_out").
Attempt(resp) ==
    /\ rq_pc = "running"
    /\ LET g == GenerateJwt(current_token, token_expires_at, now, signCount,
                            CanSign(private_key))
           tk == RequestToken(attempt, token, g.token)
           out == IF g.ok THEN HandleResponse(resp, attempt) ELSE TokenError
       IN /\ current_token' = g.current_token
          /\ token_expires_at' = g.token_expires_at
          /\ signCount' = g.signs
          /\ jwt_ret' = JwtObservation(g, current_token, token_expires_at, now)
          /\ token' = IF g.ok THEN tk ELSE token
          /\ rq_http' = IF g.ok THEN rq_http + 1 ELSE rq_http
          /\ iv' = IF g.ok /\ iv_pc # "idle"
                   THEN [iv EXCEPT !.sent = @ \cup {rq_endpoint}]
                   ELSE iv
          /\ rq_last' = [attempt |-> attempt, http |-> g.ok,
                         resp |-> IF g.ok THEN resp ELSE NetworkFailure,
                         op |-> out.op, delay |-> out.delay,
                         token |-> IF g.ok THEN tk ELSE NoToken,
                         left |-> IF g.ok THEN tk.expiry - now ELSE 0]
          /\ IF out.op = "retry"
             THEN /\ now' = now + out.delay
                  /\ attempt' = attempt + 1
                  /\ rq_pc' = IF InRange(attempt + 1) THEN "running" ELSE "fell_out"
                  /\ rq_result' = rq_result
             ELSE /\ now' = now
                  /\ attempt' = attempt
                  /\ rq_pc' = IF out.op = "return" THEN "returned" ELSE "raised"
                  /\ rq_result' = out
    /\ UNCHANGED <<clientVars, moreVars, callerVars, rq_endpoint, calls, iv_pc>>

\* ------------------------------------------------------------ invite_tester
\* processingState of the latest build as the remote reports it
ProcessingStates ==
    {"UPLOADING", "PROCESSING", "PROCESSING_COMPLETE", "READY_FOR_BETA_TESTING",
     "INVALID"}

\* the readiness rule of StatusChecker.check_build_status
IsReady(state) == state \in {"PROCESSING_COMPLETE", "READY_FOR_BETA_TESTING"}

NoInvite ==
    [lookup |-> "none", create |-> "none", tester_id |-> "none",
     app_edge |-> "none", build_state |-> "none", build_edge |-> "none",
     called |-> {}, sent |-> {}, status |-> "none", error |-> NoResult]

\* e-mail addresses of the testers of a batch, all different
Emails == <<"a@example.com", "b@example.com", "c@example.com">>
\* the lists a batch can be given: the first n addresses, n up to MaxBatch
EmailLists == {SubSeq(Emails, 1, n) : n \in 0..MaxBatch}

\* invite_multiple_testers not running; tenths is the fraction of the current
\* second that the sleeps of the loop have used, in tenths
NoBatch ==
    [pc |-> "idle", app_id |-> "none", testers |-> <<>>, i |-> 0,
     successful |-> <<>>, failed |-> <<>>, already_invited |-> <<>>,
     tenths |-> 0, error |-> NoResult]

\* ProcessingProgress(total)
NewProgress(total) ==
    [total |-> total, processed |-> 0, successful |-> 0, failed |-> 0,
     warnings |-> 0]

\* check_invitation_status not running
NoCheck ==
    [pc |-> "idle", emails |-> <<>>, i |-> 0, statuses |-> <<>>,
     progress |-> NewProgress(0), tenths |-> 0, error |-> NoResult]

\* no build: app and uploaded tell builds apart, state is the processingState
NoBuild == [app |-> "none", uploaded |-> 0, state |-> "none"]

\* no params
NoQuery == [filter_app |-> "none", sort |-> "none", limit |-> 0]

\* no lookup running: fn is the function called, by_id whether a build_id
\* was given, app_id and build what it got, query the params of its
\* GET /builds, ready the verdict of a readiness check, builds what the
\* remote held when it answered, error what the function raised or caught
NoLookup ==
    [pc |-> "idle", fn |-> "none", by_id |-> FALSE, app_id |-> "none",
     query |-> NoQuery, build |-> NoBuild, ready |-> FALSE, builds |-> {},
     error |-> NoResult]

\* the threads that may call generate_jwt_token at the same time
Threads == {"A", "B"}

\* a thread outside generate_jwt_token: the clock it read, its locals expiry
\* and token, what its last call returned, and whether a call of it has
\* ever run while another thread was inside the function
IdleThread ==
    [pc |-> "idle", now |-> 0, expiry |-> NoExpiry, token |-> NoToken,
     ret |-> NoToken, overlapped |-> FALSE]

NoThreads == [t \in Threads |-> IdleThread]

\* --------------------------------------------------------- ReportGenerator
\* the values of InvitationStatus.status: the four that
\* check_invitation_status produces and generate_report selects, and the two
\* further ones of the documented vocabulary; the field is a free string
StatusValues == {"invited", "not_invited", "exists_not_invited", "error",
                 "already_associated", "not_found"}

\* the lists generate_report can be handed: one InvitationStatus per
\* position, its email standing for the object; every short list, and long
\* lists of one status whose counts take two digits
ReportInputs ==
    UNION {[1..n -> StatusValues] : n \in 0..MaxStatuses}
        \cup {[i \in 1..(MaxStatuses + 9) |-> v] : v \in StatusValues}

\* [s for s in invitation_statuses if s.status == v], as emails
Having(statuses, v) ==
    SelectSeq([i \in 1..Len(statuses) |-> i], LAMBDA i : statuses[i] = v)

\* str() of a non-negative int inside an f-string or json.dump
Digits == <<"0", "1", "2", "3", "4", "5", "6", "7", "8", "9">>

RECURSIVE IntToText(_)
IntToText(n) ==
    IF n < 10 THEN <<Digits[n + 1]>>
    ELSE IntToText(n \div 10) \o <<Digits[(n % 10) + 1]>>

\* int() of a run of decimal digits, as json.load reads a number
RECURSIVE TextToInt(_)
TextToInt(t) ==
    LET d == CHOOSE i \in 0..9 : Digits[i + 1] = t[Len(t)]
    IN IF Len(t) = 1 THEN d
       ELSE 10 * TextToInt(SubSeq(t, 1, Len(t) - 1)) + d

\* "if invitation_statuses:": the argument was given and is not empty
HasStatuses(given, statuses) == given /\ Len(statuses) > 0

\* recommendations that leave out the one about the existing testers
Recommendations_NoExisting(errors, exists_not_invited, not_invited) ==
       (IF errors # <<>>
        THEN <<[item |-> "review_failed", n |-> IntToText(Len(errors))]>>
        ELSE <<>>)
    \o (IF not_invited # <<>>
        THEN <<[item |-> "send_new", n |-> IntToText(Len(not_invited))]>>
        ELSE <<>>)

\* the three "if <list>: report['recommendations'].append(f"...")"
Recommendations(errors, exists_not_invited, not_invited) ==
       (IF errors # <<>>
        THEN <<[item |-> "review_failed", n |-> IntToText(Len(errors))]>>
        ELSE <<>>)
    \o (IF exists_not_invited # <<>>
        THEN <<[item |-> "add_existing",
                n |-> IntToText(Len(exists_not_invited))]>>
        ELSE <<>>)
    \o (IF not_invited # <<>>
        THEN <<[item |-> "send_new", n |-> IntToText(Len(not_invited))]>>
        ELSE <<>>)

\* the report before the invitation part is filled in: invitation_summary
\* and detailed_results None, recommendations []
EmptyReport ==
    [has_summary |-> FALSE, raised |-> FALSE,
     total_checked |-> 0, successfully_invited |-> 0, not_invited |-> 0,
     exists_but_not_invited |-> 0, errors |-> 0,
     success_rate |-> [num |-> 0, den |-> 1],
     invited_testers |-> <<>>, not_invited_testers |-> <<>>,
     error_testers |-> <<>>, exists_not_invited_testers |-> <<>>,
     recommendations |-> <<>>]

\* generate_report(invitation_statuses=statuses): the summary counts, the
\* detailed lists and the recommendations; success_rate is kept as the
\* fraction len(invited) * 100 / len(statuses), whose zero denominator is
\* the ZeroDivisionError
GenerateReport(given, statuses) ==
    LET invited == Having(statuses, "invited")
        not_invited == Having(statuses, "not_invited")
        errors == Having(statuses, "error")
        exists_not_invited == Having(statuses, "exists_not_invited")
    IN IF ~HasStatuses(given, statuses) THEN EmptyReport
       ELSE IF Len(statuses) = 0
       THEN [EmptyReport EXCEPT !.raised = TRUE]
       ELSE [has_summary |-> TRUE, raised |-> FALSE,
             total_checked |-> Len(statuses),
             successfully_invited |-> Len(invited),
             not_invited |-> Len(not_invited),
             exists_but_not_invited |-> Len(exists_not_invited),
             errors |-> Len(errors),
             success_rate |-> [num |-> Len(invited) * 100,
                               den |-> Len(statuses)],
             invited_testers |-> invited,
             not_invited_testers |-> not_invited,
             error_testers |-> errors,
             exists_not_invited_testers |-> exists_not_invited,
             recommendations |->
                 Recommendations(errors, exists_not_invited, not_invited)]

\* the integer counts of invitation_summary
SummaryCounts == {"total_checked", "successfully_invited", "not_invited",
                  "exists_but_not_invited", "errors"}

\* an encoder that writes a count through default=str, as a JSON string
JsonValue_AsString(n) == [type |-> "string", text |-> IntToText(n)]

\* json.dump of an int: a JSON number, its decimal digits
JsonValue(n) == [type |-> "number", text |-> IntToText(n)]

\* json.dump(report, f, indent=2, default=str), the invitation_summary part:
\* null, or an object of the counts
JsonDump(report) ==
    [k \in SummaryCounts |->
        IF report.has_summary THEN JsonValue(report[k])
        ELSE [type |-> "null", text |-> <<>>]]

\* json.load of what json.dump wrote, the invitation_summary part: a JSON
\* number becomes an int, a JSON string a str, null None
JsonLoad(file) ==
    [k \in SummaryCounts |->
        IF file[k].type = "null" THEN [type |-> "NoneType", value |-> 0]
        ELSE [type |-> IF file[k].type = "number" THEN "int" ELSE "str",
              value |-> TextToInt(file[k].text)]]

\* _write_text_report, the invitation part: four of the counts as text lines
WriteTextReport(report) ==
    IF report.has_summary
    THEN [k \in SummaryCounts \ {"exists_but_not_invited"} |->
             IntToText(report[k])]
    ELSE [k \in SummaryCounts \ {"exists_but_not_invited"} |-> <<>>]

ReportFormats == {"json", "txt", "xml"}

\* no report has been asked for
NoReport ==
    [pc |-> "idle", given |-> FALSE, statuses |-> <<>>,
     report |-> EmptyReport, format |-> "none",
     json |-> JsonDump(EmptyReport), txt |-> WriteTextReport(EmptyReport),
     loaded |-> JsonLoad(JsonDump(EmptyReport))]

\* generate_report is called, with or without a list of statuses
GenerateReportCall(given, statuses) ==
    /\ rep.pc = "idle"
    /\ ~given => statuses = <<>>
    /\ LET r == GenerateReport(given, statuses)
       IN rep' = [rep EXCEPT !.pc = IF r.raised THEN "raised" ELSE "generated",
                             !.given = given, !.statuses = statuses,
                             !.report = r]
    /\ UNCHANGED <<clientVars, utc_offset, lk, th, cli, wt, callerVars, now,
                   tokenVars, rqVars, ivVars>>

\* save_report(report, format=format): the file is written, or ValueError
SaveReport(format) ==
    /\ rep.pc = "generated"
    /\ rep' = [rep EXCEPT
          !.pc = IF format \in {"json", "txt"} THEN "saved" ELSE "raised",
          !.format = format,
          !.json = IF format = "json" THEN JsonDump(rep.report) ELSE @,
          !.txt = IF format = "txt" THEN WriteTextReport(rep.report) ELSE @]
    /\ UNCHANGED <<clientVars, utc_offset, lk, th, cli, wt, callerVars, now,
                   tokenVars, rqVars, ivVars>>

\* the saved JSON file is parsed back
LoadReport ==
    /\ rep.pc = "saved" /\ rep.format = "json"
    /\ rep' = [rep EXCEPT !.pc = "loaded", !.loaded = JsonLoad(rep.json)]
    /\ UNCHANGED <<clientVars, utc_offset, lk, th, cli, wt, callerVars, now,
                   tokenVars, rqVars, ivVars>>

\* the caller is done with the report
ReportTaken ==
    /\ rep.pc \in {"generated", "saved", "loaded", "raised"}
    /\ rep' = NoReport
    /\ UNCHANGED <<clientVars, utc_offset, lk, th, cli, wt, callerVars, now,
                   tokenVars, rqVars, ivVars>>

\* ------------------------------------- the command line and the wait loop
\* validate_emails_dry_run and process_and_send_invitations are not running
NoCli ==
    [pc |-> "idle", fn |-> "none", emails |-> <<>>, valid |-> <<>>,
     invalid |-> <<>>, app_id |-> "none", results |-> <<>>, error |-> "none"]

\* wait_for_build_ready is not running
NoWait ==
    [pc |-> "idle", start_time |-> 0, timeout_delta |-> 0,
     check_interval |-> 0, app_id |-> "none", by_id |-> FALSE,
     checked_at |-> 0, polls |-> 0, finals |-> 0,
     status |-> [state |-> "none", is_ready |-> FALSE], error |-> NoResult]

\* no operation of the client is in progress and no result is pending
Idle ==
    /\ client.pc = "constructed"
    /\ rq_pc = "idle" /\ iv_pc = "idle" /\ ~jwt_ret.called
    /\ batch.pc = "idle" /\ chk.pc = "idle" /\ lk.pc = "idle"
    /\ rep.pc = "idle" /\ cli.pc = "idle" /\ wt.pc = "idle"
    /\ \A t \in Threads : th[t].pc = "idle"

\* an exception other than AppStoreConnectAPIError, wrapped by the
\* "except Exception" of the method it leaves
Wrapped == Raise("wrapped", NoStatus, "none")

\* a lookup that takes every answer for "no such tester"
FindExistingTester_NeverFound(pc, result) ==
    IF pc = "raised" THEN "error"
    ELSE IF pc = "fell_out" THEN "crashed"
    ELSE "absent"

\* a lookup whose "except AppStoreConnectAPIError" is missing: the error of
\* the request leaves invite_tester
FindExistingTester_ErrorPropagates(pc, result) ==
    IF pc \in {"raised", "fell_out"} THEN "crashed"
    ELSE IF result.body = "item" THEN "found"
    ELSE "absent"

\* _find_existing_tester: the first tester of the answer, None for an empty
\* answer, and None when the request raised ("if we can't check, assume
\* tester doesn't exist"); response.get on None is not caught there
FindExistingTester(pc, result) ==
    IF pc = "raised" THEN "error"
    ELSE IF pc = "fell_out" THEN "crashed"
    ELSE IF result.body = "item" THEN "found"
    ELSE "absent"

\* the creation sent whatever the lookup found
NeedsCreate_Always(existing) == TRUE

\* "if existing_tester: ... else: (create)"
NeedsCreate(existing) == existing # "found"

\* a creation whose 409 is taken for "already created", as the two
\* association helpers do
CreateTester_ConflictIgnored(pc, result) ==
    IF pc = "raised" /\ result.status_code # 409 THEN "raise"
    ELSE IF pc = "raised" THEN "created"
    ELSE IF pc = "returned" /\ result.body = "item" THEN "created"
    ELSE "wrapped"

\* the tester creation: the request's error leaves invite_tester; so does a
\* body without data.id
CreateTester(pc, result) ==
    IF pc = "raised" THEN "raise"
    ELSE IF pc = "returned" /\ result.body = "item" THEN "created"
    ELSE "wrapped"

\* association helpers that raise every error again, 409 included
AddEdge_ConflictRaised(pc, result) ==
    IF pc = "raised" THEN "raise" ELSE "added"

\* association helpers that swallow every error of their request
AddEdge_AllSwallowed(pc, result) ==
    IF pc = "raised" THEN "conflict" ELSE "added"

\* _add_tester_to_app and _add_tester_to_build: a raised 409 is swallowed,
\* any other error is raised again, the returned value is not looked at
AddEdge(pc, result) ==
    IF pc = "raised"
    THEN IF result.status_code = 409 THEN "conflict" ELSE "raise"
    ELSE "added"

\* an answer without data taken for one with an element
FirstOrError_EmptyAccepted(pc, result) ==
    IF pc = "raised" THEN "raise"
    ELSE IF pc = "fell_out" THEN "wrapped"
    ELSE "first"

\* get_app_id and get_latest_build after their request: its error, an error
\* for an empty answer, else the first element
FirstOrError(pc, result) ==
    IF pc = "raised" THEN "raise"
    ELSE IF pc = "fell_out" THEN "wrapped"
    ELSE IF result.body = "item" THEN "first"
    ELSE "empty"

\* "if latest_build['processing_state'] == 'PROCESSING'": the build
\* association is skipped
SkipsBuild(state) == state = "PROCESSING"

\* invite_tester ends by raising err
InviteRaise(err, fields) ==
    /\ iv_pc' = "raised"
    /\ iv' = [fields EXCEPT !.error = err]
    /\ UNCHANGED <<rqVars, now, clientVars, moreVars, callerVars, tokenVars>>

\* invite_tester goes on with the request ep
InviteRequest(pc, ep, fields) ==
    /\ iv_pc' = pc
    /\ iv' = [fields EXCEPT !.called = @ \cup {ep}]
    /\ BeginRequest(ep)
    /\ UNCHANGED <<calls, now, clientVars, moreVars, callerVars, tokenVars>>

\* where invite_tester starts: "if not app_id: app_id = self.get_app_id(..)",
\* then the lookup of the tester
InviteEntry(hasAppId) ==
    IF hasAppId THEN [pc |-> "lookup", ep |-> "GET /betaTesters"]
    ELSE [pc |-> "get_app", ep |-> "GET /apps"]

\* invite_tester called: without app_id it starts with get_app_id, with it
\* with the lookup of the tester
StartInvite(hasAppId) ==
    /\ Idle
    /\ now <= MaxInviteStart
    /\ BeginRequest(InviteEntry(hasAppId).ep)
    /\ iv_pc' = InviteEntry(hasAppId).pc
    /\ iv' = [NoInvite EXCEPT !.called = {InviteEntry(hasAppId).ep}]
    /\ UNCHANGED <<calls, now, clientVars, moreVars, callerVars, tokenVars>>

\* get_app_id returned or raised inside invite_tester
InviteAppResolved ==
    /\ iv_pc = "get_app"
    /\ RequestDone
    /\ LET r == FirstOrError(rq_pc, rq_result) IN
       IF r = "first" THEN InviteRequest("lookup", "GET /betaTesters", iv)
       ELSE IF r = "raise" THEN InviteRaise(rq_result, iv)
       ELSE IF r = "empty" THEN InviteRaise(Raise("no_app", NoStatus, "none"), iv)
       ELSE InviteRaise(Wrapped, iv)

\* _find_existing_tester returned: the tester exists, or is created
InviteLookupDone ==
    /\ iv_pc = "lookup"
    /\ RequestDone
    /\ LET e == FindExistingTester(rq_pc, rq_result)
           f == [iv EXCEPT !.lookup = e]
       IN IF e = "crashed" THEN InviteRaise(Wrapped, f)
          ELSE IF NeedsCreate(e)
          THEN InviteRequest("create", "POST /betaTesters", f)
          ELSE InviteRequest("add_app", "POST /betaTesters/id/relationships/apps",
                             [f EXCEPT !.tester_id = "existing"])

\* the creation request returned or raised
InviteCreateDone ==
    /\ iv_pc = "create"
    /\ RequestDone
    /\ LET c == CreateTester(rq_pc, rq_result)
           f == [iv EXCEPT !.create = rq_pc]
       IN IF c = "created"
          THEN InviteRequest("add_app", "POST /betaTesters/id/relationships/apps",
                             [f EXCEPT !.tester_id = "created"])
          ELSE IF c = "raise" THEN InviteRaise(rq_result, f)
          ELSE InviteRaise(Wrapped, f)

\* _add_tester_to_app returned or raised; then get_latest_build is called
InviteAddAppDone ==
    /\ iv_pc = "add_app"
    /\ RequestDone
    /\ LET a == AddEdge(rq_pc, rq_result)
           f == [iv EXCEPT !.app_edge = a]
       IN IF a = "raise" THEN InviteRaise(rq_result, f)
          ELSE InviteRequest("get_build", "GET /builds", f)

\* get_latest_build returned or raised; a build that is not PROCESSING gets
\* the tester, and without that request the result is built at once
InviteBuildDone ==
    /\ iv_pc = "get_build"
    /\ RequestDone
    /\ LET r == FirstOrError(rq_pc, rq_result) IN
       IF r = "first"
       THEN \E st \in ProcessingStates :
              LET f == [iv EXCEPT !.build_state = st] IN
              IF SkipsBuild(st)
              THEN /\ iv_pc' = "returned"
                   /\ iv' = [f EXCEPT !.build_edge = "skipped", !.status = "invited"]
                   /\ UNCHANGED <<rqVars, now, clientVars, moreVars, callerVars, tokenVars>>
              ELSE InviteRequest("add_build",
                      "POST /builds/id/relationships/individualTesters", f)
       ELSE IF r = "raise" THEN InviteRaise(rq_result, iv)
       ELSE IF r = "empty" THEN InviteRaise(Raise("no_builds", NoStatus, "none"), iv)
       ELSE InviteRaise(Wrapped, iv)

\* _add_tester_to_build returned or raised; the result says 'invited'
InviteAddBuildDone ==
    /\ iv_pc = "add_build"
    /\ RequestDone
    /\ LET a == AddEdge(rq_pc, rq_result)
           f == [iv EXCEPT !.build_edge = a]
       IN IF a = "raise" THEN InviteRaise(rq_result, f)
          ELSE /\ iv_pc' = "returned"
               /\ iv' = [f EXCEPT !.status = "invited"]
               /\ UNCHANGED <<rqVars, now, clientVars, moreVars, callerVars, tokenVars>>

\* ------------------------------------------------- other entries and time
\* a caller other than invite_tester enters _make_request
StartRequest(ep) ==
    /\ Idle
    /\ calls < MaxCalls
    /\ now <= MaxTime
    /\ calls' = calls + 1
    /\ BeginRequest(ep)
    /\ UNCHANGED <<now, clientVars, moreVars, callerVars, tokenVars, ivVars>>

\* generate_jwt_token called on its own
CallGenerateJwt ==
    /\ Idle
    /\ LET g == GenerateJwt(current_token, token_expires_at, now, signCount,
                            CanSign(private_key))
       IN /\ current_token' = g.current_token
          /\ token_expires_at' = g.token_expires_at
          /\ signCount' = g.signs
          /\ jwt_ret' = JwtObservation(g, current_token, token_expires_at, now)
    /\ UNCHANGED <<now, clientVars, moreVars, callerVars, rqVars, ivVars>>

\* time between two operations of the client
IdleSteps == {1139}

Tick(d) ==
    /\ Idle
    /\ now + d <= MaxTime
    /\ now' = now + d
    /\ UNCHANGED <<clientVars, moreVars, callerVars, tokenVars, rqVars, ivVars>>

\* everything but the client object and its key, before any call
InitCalls ==
    /\ lk = NoLookup
    /\ th = NoThreads
    /\ rep = NoReport
    /\ cli = NoCli
    /\ wt = NoWait
    /\ batch = NoBatch
    /\ chk = NoCheck
    /\ now = 0
    /\ current_token = NoToken
    /\ token_expires_at = NoExpiry
    /\ signCount = 0
    /\ jwt_ret = NoObservation
    /\ rq_pc = "idle"
    /\ rq_endpoint = "none"
    /\ attempt = 0
    /\ token = NoToken
    /\ rq_http = 0
    /\ rq_last = NoAttempt
    /\ rq_result = NoResult
    /\ calls = 0
    /\ iv_pc = "idle"
    /\ iv = NoInvite

\* AppStoreConnectAPI(credentials_path): _load_credentials, then
\* _load_private_key; the first error leaves the constructor
Construct ==
    /\ client.pc = "new"
    /\ LET c == LoadCredentials(credentials)
           k == LoadPrivateKey(credentials)
       IN /\ client' =
                [pc |-> IF c.ok /\ k.ok THEN "constructed" ELSE "failed",
                 api_key_id |-> c.api_key_id, issuer_id |-> c.issuer_id,
                 private_key_path |-> c.private_key_path,
                 error |-> IF c.ok THEN k.error ELSE c.error]
          /\ private_key' = IF c.ok THEN k.private_key ELSE "none"
    /\ UNCHANGED <<credentials, moreVars, callerVars, now, tokenVars, rqVars,
                   ivVars>>

\* a directory of credentials and no client yet
InitConstruct ==
    /\ utc_offset = 0
    /\ credentials \in CredentialDirs
    /\ client = NewClient
    /\ private_key = "none"
    /\ InitCalls

\* a client constructed from a complete directory of credentials
InitClient ==
    /\ private_key \in PrivateKeys
    /\ credentials = [env_file |-> TRUE, key_id |-> TRUE, issuer_id |-> TRUE,
                      key_path |-> TRUE, key_file |-> private_key]
    /\ client = ConstructedClient
    /\ InitCalls

\* offsets of the hosts the client runs on: UTC, east of it and west of it
UtcOffsets == {0, 3600, -18000}

\* the client on a host whose clock is set to UTC
Init ==
    /\ utc_offset = 0
    /\ InitClient

\* the client on a host in any of the time zones
InitHost ==
    /\ utc_offset \in UtcOffsets
    /\ InitClient

\* the caller of a finished operation takes its result (the token, the body
\* or the error of _make_request); the record of the finished call is dropped
ClearCall ==
    /\ jwt_ret' = NoObservation
    /\ rq_pc' = "idle"
    /\ rq_endpoint' = "none"
    /\ attempt' = 0
    /\ token' = NoToken
    /\ rq_http' = 0
    /\ rq_last' = NoAttempt
    /\ rq_result' = NoResult

TokenTaken ==
    /\ rq_pc = "idle" /\ iv_pc = "idle" /\ jwt_ret.called
    /\ ClearCall
    /\ UNCHANGED <<now, clientVars, moreVars, callerVars, current_token, token_expires_at, signCount,
                   calls, ivVars>>

ResultTaken ==
    /\ RequestDone /\ iv_pc = "idle"
    /\ ClearCall
    /\ UNCHANGED <<now, clientVars, moreVars, callerVars, current_token, token_expires_at, signCount,
                   calls, ivVars>>

InviteTaken ==
    /\ iv_pc \in {"returned", "raised"}
    /\ ClearCall
    /\ iv_pc' = "idle"
    /\ iv' = NoInvite
    /\ UNCHANGED <<now, clientVars, moreVars, callerVars, current_token, token_expires_at, signCount,
                   calls>>

\* -------------------------------------------------- invite_multiple_testers
\* answers of the remote during a batch: a resource, an empty list, a
\* refusal that is not retried and a failure that is
BatchResponses ==
    {[status |-> 200, body |-> "item"], [status |-> 200, body |-> "empty"],
     [status |-> 401, body |-> "empty"], [status |-> 500, body |-> "empty"]}

\* str(e) of an error: the fixed text of the message that was raised
ErrorText(err) == err.kind

\* "already exists" can stand in str(e) only where the message carries text
\* from the remote or the network: the error detail of a 401 or 403, and
\* the text of a network exception
MayMentionExists(err) == err.kind \in {"auth", "network"}

\* time.sleep(d tenths of a second) seen on the clock of whole seconds
SleepSeconds(tenths, d) == (tenths + d) \div 10
SleepTenths(tenths, d) == (tenths + d) % 10

\* outcomes put at the head of their list
RecordOutcome_Prepended(b, email, pc, inv, exists) ==
    IF pc = "returned"
    THEN [b EXCEPT !.successful =
              <<[email |-> email, tester_id |-> inv.tester_id]>> \o @]
    ELSE IF exists
    THEN [b EXCEPT !.already_invited =
              <<[email |-> email, error |-> ErrorText(inv.error)]>> \o @]
    ELSE [b EXCEPT !.failed =
              <<[email |-> email, error |-> ErrorText(inv.error)]>> \o @]

\* an entry that is filed under 'successful' and, on error, under 'failed' too
RecordOutcome_Twice(b, email, pc, inv, exists) ==
    LET f == [b EXCEPT !.failed =
                  Append(@, [email |-> email, error |-> ErrorText(inv.error)])]
    IN IF pc = "returned"
       THEN [b EXCEPT !.successful =
                 Append(@, [email |-> email, tester_id |-> inv.tester_id])]
       ELSE IF exists
       THEN [f EXCEPT !.already_invited =
                 Append(@, [email |-> email, error |-> ErrorText(inv.error)])]
       ELSE f

\* the body of the loop after invite_tester: its result goes to 'successful',
\* its error to 'already_invited' when the text says "already exists" and to
\* 'failed' otherwise
RecordOutcome(b, email, pc, inv, exists) ==
    IF pc = "returned"
    THEN [b EXCEPT !.successful =
              Append(@, [email |-> email, tester_id |-> inv.tester_id])]
    ELSE IF exists
    THEN [b EXCEPT !.already_invited =
              Append(@, [email |-> email, error |-> ErrorText(inv.error)])]
    ELSE [b EXCEPT !.failed =
              Append(@, [email |-> email, error |-> ErrorText(inv.error)])]

\* a loop that stops at the first entry whose invitation raised
BatchContinues_StopOnError(b, pc) == b.i < Len(b.testers) /\ pc # "raised"

\* "for i, tester in enumerate(testers, 1)": there is a next tester
BatchContinues(b, pc) == b.i < Len(b.testers)

\* a loop that calls invite_tester without an app_id
PassedAppId_Dropped(b) == "none"

\* "app_id=app_id" of the call in the loop: the local of the batch
PassedAppId(b) == b.app_id

\* the top of the loop with the locals b: invite_tester is called for the
\* next tester with the app_id of the batch, or the results are returned
BatchLoop(b, pc) ==
    IF BatchContinues(b, pc)
    THEN LET e == InviteEntry(PassedAppId(b) # "none") IN
         /\ batch' = [b EXCEPT !.pc = "entry", !.i = @ + 1]
         /\ iv_pc' = e.pc
         /\ iv' = [NoInvite EXCEPT !.called = {e.ep}]
         /\ BeginRequest(e.ep)
         /\ jwt_ret' = jwt_ret
    ELSE /\ batch' = [b EXCEPT !.pc = "returned"]
         /\ iv_pc' = "idle"
         /\ iv' = NoInvite
         /\ ClearCall

\* invite_multiple_testers(testers, app_id): without app_id the app is
\* looked up first
StartBatch(testers, hasAppId) ==
    /\ Idle
    /\ now <= MaxInviteStart
    /\ IF hasAppId
       THEN BatchLoop([NoBatch EXCEPT !.testers = testers, !.app_id = "app"],
                      "none")
       ELSE /\ batch' = [NoBatch EXCEPT !.pc = "get_app", !.testers = testers]
            /\ BeginRequest("GET /apps")
            /\ UNCHANGED <<jwt_ret, ivVars>>
    /\ UNCHANGED <<clientVars, moreVars, chk, now, current_token, token_expires_at,
                   signCount, calls>>

\* get_app_id returned or raised before the loop
BatchAppResolved ==
    /\ batch.pc = "get_app"
    /\ RequestDone
    /\ LET r == FirstOrError(rq_pc, rq_result) IN
       IF r = "first"
       THEN BatchLoop([batch EXCEPT !.app_id = "app"], "none")
       ELSE /\ batch' = [batch EXCEPT
                 !.pc = "raised",
                 !.error = IF r = "raise" THEN rq_result
                           ELSE IF r = "empty"
                           THEN Raise("no_app", NoStatus, "none")
                           ELSE Wrapped]
            /\ UNCHANGED <<rq_pc, rq_endpoint, attempt, token, rq_http, rq_last,
                           rq_result, jwt_ret, ivVars>>
    /\ UNCHANGED <<clientVars, moreVars, chk, now, current_token, token_expires_at,
                   signCount, calls>>

\* invite_tester returned or raised for the current tester: the outcome is
\* recorded, the loop sleeps half a second and goes on
BatchEntryDone(exists) ==
    /\ batch.pc = "entry"
    /\ iv_pc \in {"returned", "raised"}
    /\ exists => (iv_pc = "raised" /\ MayMentionExists(iv.error))
    /\ LET b == RecordOutcome(batch, batch.testers[batch.i], iv_pc, iv, exists)
       IN /\ now' = now + SleepSeconds(batch.tenths, 5)
          /\ BatchLoop([b EXCEPT !.tenths = SleepTenths(batch.tenths, 5)], iv_pc)
    /\ UNCHANGED <<clientVars, moreVars, chk, current_token, token_expires_at, signCount,
                   calls>>

\* the caller takes the summary, or the error of the app lookup
BatchTaken ==
    /\ batch.pc \in {"returned", "raised"}
    /\ batch' = NoBatch
    /\ ClearCall
    /\ UNCHANGED <<clientVars, moreVars, chk, now, current_token, token_expires_at,
                   signCount, calls, ivVars>>

\* ------------------------------------- StatusChecker.check_invitation_status
\* an argument of ProgressBar.update left at its default None
Unset == -1

\* an update that takes an argument left out for 0
ProgressUpdate_Reset(p, processed, successful, failed, warnings) ==
    [p EXCEPT !.processed = processed,
              !.successful = IF successful # Unset THEN successful ELSE 0,
              !.failed = IF failed # Unset THEN failed ELSE 0,
              !.warnings = IF warnings # Unset THEN warnings ELSE 0]

\* ProgressBar.update(processed, successful, failed, warnings)
ProgressUpdate(p, processed, successful, failed, warnings) ==
    [p EXCEPT !.processed = processed,
              !.successful = IF successful # Unset THEN successful ELSE @,
              !.failed = IF failed # Unset THEN failed ELSE @,
              !.warnings = IF warnings # Unset THEN warnings ELSE @]

\* a status that never carries the identifier of the tester
Status_TesterIdDropped(email, tester_id, status, error_message, request) ==
    [email |-> email, tester_id |-> "none", status |-> status,
     error_message |-> error_message, request |-> request]

\* InvitationStatus(email, tester_id, status, error_message); request is how
\* the last remote request made for the entry ended
Status(email, tester_id, status, error_message, request) ==
    [email |-> email, tester_id |-> tester_id, status |-> status,
     error_message |-> error_message, request |-> request]

\* _find_tester_by_email: the first tester of the answer, None for an empty
\* answer and None for every exception
FindTesterByEmail(pc, result) ==
    IF pc = "returned" /\ result.body = "item" THEN "found" ELSE "none"

\* _check_tester_app_association: app_id is among the ids of the answer;
\* False for every exception
CheckTesterAppAssociation(pc, result, listed) ==
    pc = "returned" /\ result.body = "item" /\ listed

\* the top of the loop with the locals c: the next address is looked up, or
\* the statuses are returned
CheckLoop(c) ==
    IF c.i < Len(c.emails)
    THEN /\ chk' = [c EXCEPT !.pc = "lookup", !.i = @ + 1]
         /\ BeginRequest("GET /betaTesters")
         /\ jwt_ret' = jwt_ret
    ELSE /\ chk' = [c EXCEPT !.pc = "returned"]
         /\ ClearCall

\* the end of the loop body: the status is appended, the bar updated and
\* printed, and the loop sleeps a tenth of a second
CheckEntryDone(status, successful, failed) ==
    /\ now' = now + SleepSeconds(chk.tenths, 1)
    /\ CheckLoop([chk EXCEPT
           !.statuses = Append(@, status),
           !.progress = ProgressUpdate(@, chk.i, successful, failed, Unset),
           !.tenths = SleepTenths(@, 1)])

\* check_invitation_status(emails, app_id)
StartCheck(emails, hasAppId) ==
    /\ Idle
    /\ now <= MaxInviteStart
    /\ LET c == [NoCheck EXCEPT !.emails = emails,
                                !.progress = NewProgress(Len(emails))]
       IN IF hasAppId
          THEN CheckLoop(c)
          ELSE /\ chk' = [c EXCEPT !.pc = "get_app"]
               /\ BeginRequest("GET /apps")
               /\ jwt_ret' = jwt_ret
    /\ UNCHANGED <<clientVars, moreVars, batch, now, current_token, token_expires_at,
                   signCount, calls, ivVars>>

\* get_app_id returned or raised before the loop
CheckAppResolved ==
    /\ chk.pc = "get_app"
    /\ RequestDone
    /\ LET r == FirstOrError(rq_pc, rq_result) IN
       IF r = "first"
       THEN CheckLoop(chk)
       ELSE /\ chk' = [chk EXCEPT
                 !.pc = "raised",
                 !.error = IF r = "raise" THEN rq_result
                           ELSE IF r = "empty"
                           THEN Raise("no_app", NoStatus, "none")
                           ELSE Wrapped]
            /\ UNCHANGED <<rq_pc, rq_endpoint, attempt, token, rq_http, rq_last,
                           rq_result, jwt_ret>>
    /\ UNCHANGED <<clientVars, moreVars, batch, now, current_token, token_expires_at,
                   signCount, calls, ivVars>>

\* _find_tester_by_email returned: a tester leads to the association check,
\* no tester to the status not_invited
CheckLookupDone ==
    /\ chk.pc = "lookup"
    /\ RequestDone
    /\ IF FindTesterByEmail(rq_pc, rq_result) = "found"
       THEN /\ chk' = [chk EXCEPT !.pc = "assoc"]
            /\ BeginRequest("GET /betaTesters/id/apps")
            /\ UNCHANGED <<jwt_ret, now>>
       ELSE CheckEntryDone(
                Status(chk.emails[chk.i], "none", "not_invited", "none", rq_pc),
                chk.progress.successful, chk.progress.failed + 1)
    /\ UNCHANGED <<clientVars, moreVars, batch, current_token, token_expires_at,
                   signCount, calls, ivVars>>

\* _check_tester_app_association returned; listed is whether the answer
\* names the app
CheckAssocDone(listed) ==
    /\ chk.pc = "assoc"
    /\ RequestDone
    /\ listed => (rq_pc = "returned" /\ rq_result.body = "item")
    /\ CheckEntryDone(
           Status(chk.emails[chk.i], "id",
                  IF CheckTesterAppAssociation(rq_pc, rq_result, listed)
                  THEN "invited" ELSE "exists_not_invited",
                  "none", rq_pc),
           chk.progress.successful + 1, Unset)
    /\ UNCHANGED <<clientVars, moreVars, batch, current_token, token_expires_at,
                   signCount, calls, ivVars>>

\* the caller takes the statuses, or the error of the app lookup
CheckTaken ==
    /\ chk.pc \in {"returned", "raised"}
    /\ chk' = NoCheck
    /\ ClearCall
    /\ UNCHANGED <<clientVars, moreVars, batch, now, current_token, token_expires_at,
                   signCount, calls, ivVars>>

\* ------------------------ get_app_id, get_latest_build and the build checks
\* processingState values a build check can meet: those of the workflow and
\* the one the command line compares with
BuildStates == ProcessingStates \cup {"READY_FOR_TESTING"}

\* the app of the bundle identifier and another app of the same account
Apps == {"app", "other"}

\* the builds the remote can hold, each with its app and its uploadedDate
RemoteBuilds == [app : Apps, uploaded : {1, 2}]
RemoteBuildSets == SUBSET RemoteBuilds

\* the functions that look up the app or a build
LookupFns ==
    {"get_app_id", "get_latest_build", "cli_check_build_status",
     "check_build_status"}

\* params that ask for the oldest build first
BuildQuery_Ascending(app_id) ==
    [filter_app |-> app_id, sort |-> "uploadedDate", limit |-> 1]

\* params of the request of get_latest_build: 'filter[app]': app_id,
\* 'sort': '-uploadedDate', 'limit': '1'
BuildQuery(app_id) ==
    [filter_app |-> app_id, sort |-> "-uploadedDate", limit |-> 1]

\* the remote puts a before b under the sort parameter
SortsBefore(a, b, sort) ==
    IF sort = "-uploadedDate" THEN a.uploaded >= b.uploaded
    ELSE a.uploaded <= b.uploaded

\* the builds bs in the order of the sort parameter
RECURSIVE Ordered(_, _)
Ordered(bs, sort) ==
    IF bs = {} THEN <<>>
    ELSE LET b == CHOOSE x \in bs : \A y \in bs : SortsBefore(x, y, sort)
         IN <<b>> \o Ordered(bs \ {b}, sort)

\* response['data'] of GET /builds with the params q when the remote holds
\* the builds bs: those of the app, sorted, cut at the limit
RemoteAnswer(bs, q) ==
    LET all == Ordered({b \in bs : b.app = q.filter_app}, q.sort)
    IN SubSeq(all, 1, Min(q.limit, Len(all)))

\* the command line's test: processing_state == 'READY_FOR_TESTING'
CliBuildReady(state) == state = "READY_FOR_TESTING"

\* what a function makes of the processing state of the build it got
Verdict(fn, state) ==
    IF fn = "cli_check_build_status" THEN CliBuildReady(state)
    ELSE IF fn = "check_build_status" THEN IsReady(state)
    ELSE FALSE

\* the error get_app_id and get_latest_build end with when FirstOrError is r
LookupError(r, result, kind) ==
    IF r = "raise" THEN result
    ELSE IF r = "empty" THEN Raise(kind, NoStatus, "none")
    ELSE Wrapped

\* _get_build_by_id: response['data'] read as one build; every exception,
\* the request's error included, is raised again as a new error
GetBuildById(pc, result) ==
    IF pc = "returned" /\ result.body = "item" THEN "build" ELSE "wrapped"

\* the function with the locals l ends on err: the command line's check
\* prints it and returns False, the others raise it
LookupFail(l, err) ==
    /\ lk' = IF l.fn = "cli_check_build_status"
             THEN [l EXCEPT !.pc = "returned", !.ready = FALSE, !.error = err]
             ELSE [l EXCEPT !.pc = "raised", !.error = err]
    /\ UNCHANGED <<rq_pc, rq_endpoint, attempt, token, rq_http, rq_last,
                   rq_result>>

\* the function with the locals l asks for its build: the one named by
\* build_id, or the latest of the app
LookupBuild(l) ==
    IF l.by_id
    THEN /\ lk' = [l EXCEPT !.pc = "get_build_by_id"]
         /\ BeginRequest("GET /builds/id")
    ELSE /\ lk' = [l EXCEPT !.pc = "get_build", !.query = BuildQuery(l.app_id)]
         /\ BeginRequest("GET /builds")

\* one of the functions is called; app is the app_id it is given ("none":
\* it looks the app up first), byId whether it is given a build_id
StartLookup(fn, app, byId) ==
    /\ Idle
    /\ now <= MaxInviteStart
    /\ fn \in {"get_app_id", "cli_check_build_status"} => app = "none"
    /\ byId => fn = "check_build_status"
    /\ LET l == [NoLookup EXCEPT !.fn = fn, !.by_id = byId, !.app_id = app]
       IN IF app = "none"
          THEN /\ lk' = [l EXCEPT !.pc = "get_app"]
               /\ BeginRequest("GET /apps")
          ELSE LookupBuild(l)
    /\ UNCHANGED <<clientVars, utc_offset, th, rep, cli, wt, callerVars, now, tokenVars,
                   calls, ivVars>>

\* the request of get_app_id ended: the id of the first app, or an error
LookupAppDone ==
    /\ lk.pc = "get_app"
    /\ RequestDone
    /\ LET r == FirstOrError(rq_pc, rq_result)
           l == [lk EXCEPT !.app_id = "app"]
       IN IF r # "first" THEN LookupFail(lk, LookupError(r, rq_result, "no_app"))
          ELSE IF lk.fn = "get_app_id"
          THEN /\ lk' = [l EXCEPT !.pc = "returned"]
               /\ UNCHANGED <<rq_pc, rq_endpoint, attempt, token, rq_http,
                              rq_last, rq_result>>
          ELSE LookupBuild(l)
    /\ UNCHANGED <<clientVars, utc_offset, th, rep, cli, wt, callerVars, now, tokenVars,
                   calls, ivVars>>

\* the request of get_latest_build ended while the remote held the builds
\* bs: build_info of the first build of the answer, or an error
LookupBuildDone(bs) ==
    /\ lk.pc = "get_build"
    /\ RequestDone
    /\ LET r == FirstOrError(rq_pc, rq_result)
           data == RemoteAnswer(bs, lk.query)
       IN /\ r = "first" => data # <<>>
          /\ r = "empty" => data = <<>>
          /\ r \notin {"first", "empty"} => bs = {}
          /\ IF r = "first"
             THEN \E st \in BuildStates :
                    /\ lk' = [lk EXCEPT
                          !.pc = "returned",
                          !.builds = bs,
                          !.build = [app |-> data[1].app,
                                     uploaded |-> data[1].uploaded,
                                     state |-> st],
                          !.ready = Verdict(lk.fn, st)]
                    /\ UNCHANGED <<rq_pc, rq_endpoint, attempt, token, rq_http,
                                   rq_last, rq_result>>
             ELSE LookupFail([lk EXCEPT !.builds = bs],
                             LookupError(r, rq_result, "no_builds"))
    /\ UNCHANGED <<clientVars, utc_offset, th, rep, cli, wt, callerVars, now, tokenVars,
                   calls, ivVars>>

\* _get_build_by_id ended inside StatusChecker.check_build_status
LookupBuildByIdDone ==
    /\ lk.pc = "get_build_by_id"
    /\ RequestDone
    /\ IF GetBuildById(rq_pc, rq_result) = "build"
       THEN \E b \in RemoteBuilds, st \in BuildStates :
              /\ lk' = [lk EXCEPT
                    !.pc = "returned",
                    !.build = [app |-> b.app, uploaded |-> b.uploaded,
                               state |-> st],
                    !.ready = Verdict(lk.fn, st)]
              /\ UNCHANGED <<rq_pc, rq_endpoint, attempt, token, rq_http,
                             rq_last, rq_result>>
       ELSE LookupFail(lk, Wrapped)
    /\ UNCHANGED <<clientVars, utc_offset, th, rep, cli, wt, callerVars, now, tokenVars,
                   calls, ivVars>>

\* the caller takes what the function returned or raised
LookupTaken ==
    /\ lk.pc \in {"returned", "raised"}
    /\ lk' = NoLookup
    /\ ClearCall
    /\ UNCHANGED <<clientVars, utc_offset, th, rep, cli, wt, callerVars, now, current_token,
                   token_expires_at, signCount, calls, ivVars>>

\* --------------------------------------- StatusChecker.wait_for_build_ready
\* timeout_minutes and check_interval (seconds) of the calls
WaitTimeouts == {0, 1}
WaitIntervals == {30, 60}

\* a loop that still polls at the instant the timeout has elapsed
WaitContinues_Inclusive(t, start_time, timeout_delta) ==
    t - start_time <= timeout_delta

\* "while datetime.now() - start_time < timeout_delta"
WaitContinues(t, start_time, timeout_delta) ==
    t - start_time < timeout_delta

\* the loop condition is read at the instant t with the locals w: inside the
\* timeout check_build_status is called for a poll, after it for the final
\* check; the call passes the app_id and build_id of the wait
WaitLoop(w, t) ==
    LET polls == WaitContinues(t, w.start_time, w.timeout_delta)
        l == [NoLookup EXCEPT !.fn = "check_build_status",
                              !.by_id = w.by_id, !.app_id = w.app_id]
    IN /\ wt' = [w EXCEPT !.pc = IF polls THEN "poll" ELSE "final",
                          !.checked_at = t,
                          !.polls = IF polls THEN @ + 1 ELSE @,
                          !.finals = IF polls THEN @ ELSE @ + 1]
       /\ IF w.app_id = "none"
          THEN /\ lk' = [l EXCEPT !.pc = "get_app"]
               /\ BeginRequest("GET /apps")
          ELSE LookupBuild(l)
       /\ jwt_ret' = jwt_ret

\* wait_for_build_ready(app_id, build_id, timeout_minutes, check_interval)
StartWait(app, byId, timeout_minutes, check_interval) ==
    /\ Idle
    /\ now <= MaxInviteStart
    /\ WaitLoop([NoWait EXCEPT !.start_time = now,
                               !.timeout_delta = timeout_minutes * 60,
                               !.check_interval = check_interval,
                               !.app_id = app, !.by_id = byId], now)
    /\ UNCHANGED <<clientVars, utc_offset, th, rep, cli, callerVars, now,
                   current_token, token_expires_at, signCount, calls, ivVars>>

\* check_build_status returned or raised inside the wait: its error leaves
\* the wait; the status of the final check, or a ready one, is returned;
\* otherwise the loop sleeps check_interval and reads its condition again
WaitCheckDone ==
    /\ wt.pc \in {"poll", "final"}
    /\ lk.pc \in {"returned", "raised"}
    /\ LET status == [state |-> lk.build.state, is_ready |-> lk.ready] IN
       IF lk.pc = "raised"
       THEN /\ wt' = [wt EXCEPT !.pc = "raised", !.error = lk.error]
            /\ lk' = NoLookup
            /\ ClearCall
            /\ now' = now
       ELSE IF wt.pc = "final" \/ status.is_ready
       THEN /\ wt' = [wt EXCEPT !.pc = "returned", !.status = status]
            /\ lk' = NoLookup
            /\ ClearCall
            /\ now' = now
       ELSE /\ now' = now + wt.check_interval
            /\ WaitLoop([wt EXCEPT !.status = status], now + wt.check_interval)
    /\ UNCHANGED <<clientVars, utc_offset, th, rep, cli, callerVars,
                   current_token, token_expires_at, signCount, calls, ivVars>>

\* the caller takes the status or the error
WaitTaken ==
    /\ wt.pc \in {"returned", "raised"}
    /\ wt' = NoWait
    /\ UNCHANGED <<clientVars, utc_offset, lk, th, rep, cli, callerVars, now,
                   tokenVars, rqVars, ivVars>>

\* ----------------------------- generate_jwt_token called by several threads
\* the function takes no lock: each thread runs its statements one at a
\* time, and the other thread and the clock may move between any two

\* the readings of datetime.utcnow() the threads can get
ThreadInstants == {0, 1, 2, 1140, 1141}

\* positions of a thread inside the function
Inside == {"check", "return_cached", "sign", "write_token", "write_expiry"}

\* no operation of the single-threaded program is in progress
OthersIdle ==
    /\ client.pc = "constructed"
    /\ rq_pc = "idle" /\ iv_pc = "idle" /\ ~jwt_ret.called
    /\ batch.pc = "idle" /\ chk.pc = "idle" /\ lk.pc = "idle"
    /\ rep.pc = "idle" /\ cli.pc = "idle" /\ wt.pc = "idle"

\* what the thread steps leave alone
threadFrame == <<clientVars, utc_offset, lk, rep, cli, wt, callerVars, jwt_ret, rqVars, ivVars>>

\* the thread t moves to pc with the locals of l
ThreadAt(t, pc, l) == th' = [th EXCEPT ![t] = [l EXCEPT !.pc = pc]]

\* thread t calls generate_jwt_token()
ThCall(t) ==
    /\ OthersIdle
    /\ th[t].pc = "idle"
    /\ LET o == \E u \in Threads \ {t} : th[u].pc \in Inside IN
       th' = [u \in Threads |->
                IF u = t
                THEN [th[t] EXCEPT !.pc = "check", !.overlapped = @ \/ o]
                ELSE [th[u] EXCEPT !.overlapped = @ \/ th[u].pc \in Inside]]
    /\ UNCHANGED <<now, current_token, token_expires_at, signCount, threadFrame>>

\* "if ... self.current_token and self.token_expires_at:
\*      if datetime.utcnow() < self.token_expires_at - timedelta(minutes=1):"
ThCheck(t) ==
    /\ th[t].pc = "check"
    /\ ThreadAt(t, IF TokenStillValid(current_token, token_expires_at, now)
                   THEN "return_cached" ELSE "sign",
                [th[t] EXCEPT !.now = now])
    /\ UNCHANGED <<now, current_token, token_expires_at, signCount, threadFrame>>

\* "return self.current_token": the field is read again
ThReturnCached(t) ==
    /\ th[t].pc = "return_cached"
    /\ ThreadAt(t, "returned", [th[t] EXCEPT !.ret = current_token])
    /\ UNCHANGED <<now, current_token, token_expires_at, signCount, threadFrame>>

\* "now = datetime.utcnow(); expiry = now + timedelta(minutes=20);
\*  token = jwt.encode(...)": a failed signing leaves the function
ThSign(t) ==
    /\ th[t].pc = "sign"
    /\ IF CanSign(private_key)
       THEN LET expiry == now + TOKEN_EXPIRY_MINUTES * 60 IN
            /\ ThreadAt(t, "write_token",
                   [th[t] EXCEPT
                       !.now = now, !.expiry = expiry,
                       !.token = [id |-> signCount + 1, expiry |-> expiry,
                                  exp |-> ExpClaim(expiry)]])
            /\ signCount' = signCount + 1
       ELSE /\ ThreadAt(t, "raised", [th[t] EXCEPT !.now = now])
            /\ signCount' = signCount
    /\ UNCHANGED <<now, current_token, token_expires_at, threadFrame>>

\* "self.current_token = token"
ThWriteToken(t) ==
    /\ th[t].pc = "write_token"
    /\ current_token' = th[t].token
    /\ ThreadAt(t, "write_expiry", th[t])
    /\ UNCHANGED <<now, token_expires_at, signCount, threadFrame>>

\* "self.token_expires_at = expiry", then "return token"
ThWriteExpiry(t) ==
    /\ th[t].pc = "write_expiry"
    /\ token_expires_at' = th[t].expiry
    /\ ThreadAt(t, "returned", [th[t] EXCEPT !.ret = th[t].token])
    /\ UNCHANGED <<now, current_token, signCount, threadFrame>>

\* the caller in thread t takes the token, or the error
ThTaken(t) ==
    /\ th[t].pc \in {"returned", "raised"}
    /\ ThreadAt(t, "idle", [IdleThread EXCEPT !.overlapped = th[t].overlapped])
    /\ UNCHANGED <<now, current_token, token_expires_at, signCount, threadFrame>>

\* the clock moves on, wherever the threads are
ThTick(i) ==
    /\ OthersIdle
    /\ i > now
    /\ now' = i
    /\ UNCHANGED <<th, current_token, token_expires_at, signCount, threadFrame>>

\* ------------------ validate_emails_dry_run and process_and_send_invitations
\* an address is the sequence of its characters; the letters are those the
\* addresses below are written with
Letters == {"a", "b", "c", "o", "x"}

\* the addresses the command line is given: "a@x.co", the same with a
\* leading blank, "b@x.co", and three the pattern refuses: "a@x" (no dot),
\* "a@x.c" (a one-letter top level) and "a b@x.co" (a blank inside)
CliAddresses ==
    {<<"a", "@", "x", ".", "c", "o">>,
     <<" ", "a", "@", "x", ".", "c", "o">>,
     <<"b", "@", "x", ".", "c", "o">>,
     <<"a", "@", "x">>,
     <<"a", "@", "x", ".", "c">>,
     <<"a", " ", "b", "@", "x", ".", "c", "o">>}

\* the lists of addresses of --emails
CliInputs == UNION {[1..n -> CliAddresses] : n \in 0..MaxAddresses}

\* str.strip()
RECURSIVE Strip(_)
Strip(t) ==
    IF t = <<>> THEN t
    ELSE IF t[1] = " " THEN Strip(Tail(t))
    ELSE IF t[Len(t)] = " " THEN Strip(SubSeq(t, 1, Len(t) - 1))
    ELSE t

\* email_pattern.match: ^[a-zA-Z0-9._%+-]+@[a-zA-Z0-9.-]+\.[a-zA-Z]{2,}$
EmailPattern(t) ==
    LET alnum == Letters \cup {Digits[d] : d \in 1..10}
        local == alnum \cup {".", "_", "%", "+", "-"}
        domain == alnum \cup {".", "-"}
    IN \E i, j \in 1..Len(t) :
          /\ t[i] = "@" /\ t[j] = "."
          /\ i >= 2 /\ \A k \in 1..(i - 1) : t[k] \in local
          /\ j >= i + 2 /\ \A k \in (i + 1)..(j - 1) : t[k] \in domain
          /\ Len(t) >= j + 2 /\ \A k \in (j + 1)..Len(t) : t[k] \in Letters

\* the loop of validate_emails_dry_run: the stripped addresses that match,
\* and those that do not, each in input order
Validated(emails) ==
    LET stripped == [k \in 1..Len(emails) |-> Strip(emails[k])]
    IN [valid |-> SelectSeq(stripped, EmailPattern),
        invalid |-> SelectSeq(stripped, LAMBDA t : ~EmailPattern(t))]

\* list(set(valid_emails)): the distinct addresses in the order the set
\* iterates them, which follows the hashes of the strings and not the input
SetOrders(list) ==
    LET s == {list[k] : k \in 1..Len(list)}
    IN {q \in [1..Cardinality(s) -> s] : {q[k] : k \in 1..Cardinality(s)} = s}

\* the methods of AppStoreConnectAPI
ClientMethods ==
    {"generate_jwt_token", "_make_request", "get_app_id", "get_latest_build",
     "invite_tester", "_find_existing_tester", "_add_tester_to_app",
     "_add_tester_to_build", "invite_multiple_testers"}

\* validate_emails_dry_run(emails) of --dry-run; valid is the order the set
\* gave
ValidateEmailsDryRun(emails) ==
    /\ cli.pc = "idle"
    /\ \E valid \in SetOrders(Validated(emails).valid) :
          cli' = [NoCli EXCEPT !.pc = "validated", !.fn = "validate",
                              !.emails = emails, !.valid = valid,
                              !.invalid = Validated(emails).invalid]
    /\ UNCHANGED <<clientVars, utc_offset, lk, th, rep, wt, callerVars, now,
                   tokenVars, rqVars, ivVars>>

\* process_and_send_invitations(api, emails): the validation; without a
\* valid address it returns, else get_app_id is called
StartSend(emails) ==
    /\ Idle
    /\ now <= MaxInviteStart
    /\ \E valid \in SetOrders(Validated(emails).valid) :
          LET c == [NoCli EXCEPT !.fn = "send", !.emails = emails,
                                !.valid = valid,
                                !.invalid = Validated(emails).invalid]
          IN IF valid = <<>>
             THEN /\ cli' = [c EXCEPT !.pc = "done"]
                  /\ UNCHANGED <<rq_pc, rq_endpoint, attempt, token, rq_http,
                                 rq_last, rq_result>>
             ELSE /\ cli' = [c EXCEPT !.pc = "get_app"]
                  /\ BeginRequest("GET /apps")
    /\ UNCHANGED <<clientVars, utc_offset, lk, th, rep, wt, callerVars, now,
                   tokenVars, calls, ivVars>>

\* get_app_id returned or raised; then api.invite_testers_batch(...) is
\* called, an attribute the client does not have: every exception is caught
\* by "except Exception" and printed, and the function returns
SendAppResolved ==
    /\ cli.pc = "get_app"
    /\ RequestDone
    /\ LET r == FirstOrError(rq_pc, rq_result) IN
       cli' = [cli EXCEPT
          !.pc = "done",
          !.app_id = IF r = "first" THEN "app" ELSE @,
          !.error = IF r # "first" THEN "get_app_id"
                    ELSE IF "invite_testers_batch" \notin ClientMethods
                    THEN "AttributeError"
                    ELSE @,
          !.results = IF r = "first" /\ "invite_testers_batch" \in ClientMethods
                      THEN cli.valid ELSE @]
    /\ UNCHANGED <<clientVars, utc_offset, lk, th, rep, wt, callerVars, now,
                   tokenVars, rqVars, ivVars>>

\* main returns 0
CliTaken ==
    /\ cli.pc \in {"validated", "done"}
    /\ cli' = NoCli
    /\ ClearCall
    /\ UNCHANGED <<clientVars, utc_offset, lk, th, rep, wt, callerVars, now,
                   current_token, token_expires_at, signCount, calls, ivVars>>

\* ------------------------------------------------ KeyboardInterrupt in main
\* the user interrupts the process while a batch runs.  KeyboardInterrupt is
\* no Exception: nothing in the loop, in invite_tester or in _make_request
\* catches it, the loop has no abort test of its own, and the handler of
\* main is the first to see it.  Whatever was running is cut: the request in
\* flight, the entry, the batch and its results.
Interrupt ==
    /\ batch.pc \in {"get_app", "entry"}
    /\ batch' = [batch EXCEPT !.pc = "interrupted",
                              !.error = Raise("interrupt", NoStatus, "none")]
    /\ rq_pc' = IF rq_pc = "running" THEN "interrupted" ELSE rq_pc
    /\ iv_pc' = IF iv_pc \in {"idle", "returned", "raised"} THEN iv_pc
                ELSE "interrupted"
    /\ UNCHANGED <<clientVars, moreVars, chk, now, tokenVars, rq_endpoint,
                   attempt, token, rq_http, rq_last, rq_result, calls, iv>>

\* "except KeyboardInterrupt: ... return 130"
InterruptTaken ==
    /\ batch.pc = "interrupted"
    /\ batch' = NoBatch
    /\ iv_pc' = "idle"
    /\ iv' = NoInvite
    /\ ClearCall
    /\ UNCHANGED <<clientVars, moreVars, chk, now, current_token,
                   token_expires_at, signCount, calls>>

\* the token cache and the request loop, over long stretches of time
Next ==
    \/ \E d \in IdleSteps : Tick(d)
    \/ CallGenerateJwt
    \/ TokenTaken
    \/ \E ep \in DirectEndpoints : StartRequest(ep)
    \/ \E r \in Responses : Attempt(r)
    \/ ResultTaken

Spec == Init /\ [][Next]_vars

\* invite_tester, every request of it through the same loop
NextInvite ==
    \/ \E a \in BOOLEAN : StartInvite(a)
    \/ \E r \in Responses : Attempt(r)
    \/ InviteAppResolved
    \/ InviteLookupDone
    \/ InviteCreateDone
    \/ InviteAddAppDone
    \/ InviteBuildDone
    \/ InviteAddBuildDone
    \/ InviteTaken

SpecInvite == Init /\ [][NextInvite]_vars

\* the two batch operations, every request of them through the same loop
NextBatch ==
    \/ \E t \in EmailLists, a \in BOOLEAN : StartBatch(t, a)
    \/ BatchAppResolved
    \/ \E r \in BatchResponses : Attempt(r)
    \/ InviteLookupDone
    \/ InviteCreateDone
    \/ InviteAddAppDone
    \/ InviteBuildDone
    \/ InviteAddBuildDone
    \/ \E x \in BOOLEAN : BatchEntryDone(x)
    \/ BatchTaken
    \/ \E e \in EmailLists, a \in BOOLEAN : StartCheck(e, a)
    \/ CheckAppResolved
    \/ CheckLookupDone
    \/ \E l \in BOOLEAN : CheckAssocDone(l)
    \/ CheckTaken

SpecBatch == Init /\ [][NextBatch]_vars

\* the lookups of the app and of its builds, and the two build checks
NextLookup ==
    \/ \E fn \in LookupFns, app \in Apps \cup {"none"}, byId \in BOOLEAN :
          StartLookup(fn, app, byId)
    \/ \E r \in Responses : Attempt(r)
    \/ LookupAppDone
    \/ \E bs \in RemoteBuildSets : LookupBuildDone(bs)
    \/ LookupBuildByIdDone
    \/ LookupTaken

SpecLookup == Init /\ [][NextLookup]_vars

\* a report is generated, saved and read back
NextReport ==
    \/ \E given \in BOOLEAN, statuses \in ReportInputs :
          GenerateReportCall(given, statuses)
    \/ \E format \in ReportFormats : SaveReport(format)
    \/ LoadReport
    \/ ReportTaken

SpecReport == Init /\ [][NextReport]_vars

\* the command line's --dry-run and its default mode
NextCli ==
    \/ \E emails \in CliInputs : ValidateEmailsDryRun(emails)
    \/ \E emails \in CliInputs : StartSend(emails)
    \/ \E r \in Responses : Attempt(r)
    \/ SendAppResolved
    \/ CliTaken

SpecCli == Init /\ [][NextCli]_vars

\* the steps of a running wait_for_build_ready
WaitStep ==
    \/ \E r \in BatchResponses : Attempt(r)
    \/ LookupAppDone
    \/ \E bs \in RemoteBuildSets : LookupBuildDone(bs)
    \/ LookupBuildByIdDone
    \/ WaitCheckDone

NextWait ==
    \/ \E app \in Apps \cup {"none"}, byId \in BOOLEAN,
          m \in WaitTimeouts, s \in WaitIntervals : StartWait(app, byId, m, s)
    \/ WaitStep
    \/ WaitTaken

\* the program is sequential, requests.request ends within its timeout of
\* 30 seconds and time.sleep within its delay: a running wait takes its
\* next step
SpecWait == Init /\ [][NextWait]_vars /\ WF_vars(WaitStep)

\* generate_jwt_token called from two threads
NextThreads ==
    \/ \E t \in Threads : ThCall(t)
    \/ \E t \in Threads : ThCheck(t)
    \/ \E t \in Threads : ThReturnCached(t)
    \/ \E t \in Threads : ThSign(t)
    \/ \E t \in Threads : ThWriteToken(t)
    \/ \E t \in Threads : ThWriteExpiry(t)
    \/ \E t \in Threads : ThTaken(t)
    \/ \E i \in ThreadInstants : ThTick(i)

SpecThreads == Init /\ [][NextThreads]_vars

\* invite_multiple_testers run from the command line, where the user can
\* interrupt it
NextInterrupt ==
    \/ \E t \in EmailLists, a \in BOOLEAN : StartBatch(t, a)
    \/ BatchAppResolved
    \/ \E r \in BatchResponses : Attempt(r)
    \/ InviteLookupDone
    \/ InviteCreateDone
    \/ InviteAddAppDone
    \/ InviteBuildDone
    \/ InviteAddBuildDone
    \/ \E x \in BOOLEAN : BatchEntryDone(x)
    \/ BatchTaken
    \/ Interrupt
    \/ InterruptTaken

SpecInterrupt == Init /\ [][NextInterrupt]_vars

\* the constructor, and the client it returns in use
NextConstruct ==
    \/ Construct
    \/ Next

SpecConstruct == InitConstruct /\ [][NextConstruct]_vars

\* the token cache and the request loop on hosts in several time zones
SpecHost == InitHost /\ [][Next]_vars

\* the loop of _make_request goes on: requests.request ends within its
\* timeout of 30 seconds and time.sleep within its delay
AttemptStep == \E r \in Responses : Attempt(r)

SpecFair == Spec /\ WF_vars(AttemptStep)

\* ------------------------------------------------------------------ claims
LastStatus == rq_last.resp.status
LastWasHttpResponse == rq_last.http /\ rq_last.resp # NetworkFailure

\* C1: whenever generate_jwt_token returns a token, more than 60 seconds are
\* left before the token's recorded expiry; it returns the cached token
\* exactly when a token was cached and now < token_expires_at - 60 s, and
\* otherwise the token it returns is newly signed and is the new cache entry.
C1_ReturnedTokenOutsideMargin ==
    (jwt_ret.called /\ jwt_ret.ok) =>
        /\ jwt_ret.left > 60
        /\ jwt_ret.cached <=>
              (/\ jwt_ret.before # NoToken
               /\ jwt_ret.beforeExpiry # NoExpiry
               /\ jwt_ret.at < jwt_ret.beforeExpiry - 60)
        /\ jwt_ret.cached =>
              /\ jwt_ret.token = jwt_ret.before
              /\ token_expires_at = jwt_ret.beforeExpiry
        /\ ~jwt_ret.cached =>
              /\ jwt_ret.token # jwt_ret.before
              /\ jwt_ret.token.id = signCount
        /\ current_token = jwt_ret.token
        /\ token_expires_at = jwt_ret.token.expiry

\* a cached token within a minute of its expiry, not yet expired, was
\* replaced by a new one
C1_Witness ==
    /\ jwt_ret.called /\ jwt_ret.ok /\ ~jwt_ret.cached
    /\ jwt_ret.before # NoToken
    /\ jwt_ret.at < jwt_ret.beforeExpiry
    /\ jwt_ret.at >= jwt_ret.beforeExpiry - 60
    /\ current_token = jwt_ret.token

\* C2: an attempt answered with 401, 403 or 404, the first one or a later
\* one, ends _make_request with a raised error that carries this status
\* code; no sleep follows it and it is the last HTTP attempt of the call.
C2_TerminalStatusEndsCall ==
    (LastWasHttpResponse /\ LastStatus \in {401, 403, 404}) =>
        /\ rq_pc = "raised"
        /\ rq_result.op = "raise"
        /\ rq_result.status_code = LastStatus
        /\ rq_last.delay = 0
        /\ rq_http = rq_last.attempt + 1
        /\ attempt = rq_last.attempt

\* a 404 on the third attempt, after two retried failures
C2_Witness ==
    /\ LastWasHttpResponse /\ LastStatus = 404
    /\ rq_last.attempt = 2
    /\ rq_pc = "raised"

\* C3: an attempt answered with a status in 200..299 and a JSON body makes
\* _make_request return that body on this attempt, without sleep or retry.
C3_Every2xxReturns ==
    (LastWasHttpResponse /\ LastStatus >= 200 /\ LastStatus <= 299
        /\ rq_last.resp.body # "invalid") =>
        /\ rq_pc = "returned"
        /\ rq_result.op = "return"
        /\ rq_result.body = rq_last.resp.body
        /\ rq_last.delay = 0

\* the counters of a call: at most max_retries + 1 HTTP attempts, the loop
\* variable within range(max_retries + 1) and equal to the attempts made
\* while the call runs, and a result of the right kind when it has ended
C4_Counts ==
    /\ rq_http <= max_retries + 1
    /\ rq_pc # "fell_out"
    /\ rq_pc = "running" => (attempt <= max_retries /\ rq_http = attempt)
    /\ rq_pc = "returned" => rq_result.op = "return"
    /\ rq_pc = "raised" => rq_result.op = "raise"

\* C4: one call of _make_request makes at most max_retries + 1 HTTP attempts
\* (4 by default) and, whatever the remote answers, ends by returning a
\* body or by raising AppStoreConnectAPIError; it never leaves its loop
\* without a result.
C4_BoundedAttemptsAndTermination ==
    /\ []C4_Counts
    /\ (rq_pc = "running") ~> (rq_pc \in {"returned", "raised"})

\* the fourth attempt was made and ended the call with an error
C4_Witness ==
    /\ rq_http = max_retries + 1
    /\ rq_last.attempt = max_retries
    /\ rq_pc = "raised"

\* C5: the sleep after a 429 at attempt k is min(base_delay * 2^k * 2,
\* max_delay), at least twice the sleep min(base_delay * 2^k, max_delay) of
\* a generic retryable failure at the same attempt.
C5_RateLimitDelayDoubled ==
    (rq_last.op = "retry" /\ LastWasHttpResponse /\ LastStatus = 429) =>
        /\ rq_last.delay = Min(base_delay * (2 ^ rq_last.attempt) * 2, max_delay)
        /\ rq_last.delay >= 2 * Min(base_delay * (2 ^ rq_last.attempt), max_delay)

\* a 429 on the third attempt was followed by a sleep of 8 seconds
C5_Witness ==
    /\ rq_last.op = "retry" /\ LastWasHttpResponse /\ LastStatus = 429
    /\ rq_last.attempt = 2
    /\ rq_last.delay = 8

\* a retry of the generic schedule: a status outside 200, 201, 401, 403,
\* 404 and 429, or a network-level failure
GenericRetry(a) ==
    /\ a.op = "retry"
    /\ a.http
    /\ \/ a.resp = NetworkFailure
       \/ a.resp.status \notin {200, 201, 401, 403, 404, 429}

\* the sleep of a generic retry at attempt k
C6_GenericDelay ==
    GenericRetry(rq_last) =>
        /\ rq_last.attempt < max_retries
        /\ rq_last.delay = Min(base_delay * (2 ^ rq_last.attempt), max_delay)
        /\ rq_last.delay <= max_delay

\* C6: a retryable status other than 429 and a network-level failure are
\* retried on one schedule: at attempt k < max_retries the sleep is
\* min(base_delay * 2^k, max_delay), never above max_delay, and from one
\* attempt of a call to the next the sleep does not decrease.
C6_GenericBackoffSchedule ==
    /\ []C6_GenericDelay
    /\ [][(GenericRetry(rq_last) /\ GenericRetry(rq_last')
            /\ rq_last'.attempt = rq_last.attempt + 1)
          => rq_last'.delay >= rq_last.delay]_vars

\* a network failure on the third attempt, after a retried status: 4 seconds
C6_Witness ==
    /\ GenericRetry(rq_last)
    /\ rq_last.resp = NetworkFailure
    /\ rq_last.attempt = 2
    /\ rq_last.delay = 4

\* C7: when the retries are exhausted by an HTTP response, the raised error
\* carries the status code of that last response and, when its body is
\* JSON, the parsed body.
C7_LastErrorCarriesStatusAndBody ==
    (/\ rq_pc = "raised"
     /\ rq_last.attempt = max_retries
     /\ LastWasHttpResponse
     /\ Classify(LastStatus) \in {"ratelimit", "other"}) =>
        /\ rq_result.status_code = LastStatus
        /\ rq_last.resp.body # "invalid" => rq_result.response = "json"

\* C8: the token of every HTTP attempt is the one generate_jwt_token
\* returned at the start of that same attempt, so it had more than 60
\* seconds left when the attempt started, also after a backoff sleep.
C8_TokenCheckedEachAttempt ==
    rq_last.http =>
        /\ jwt_ret.called /\ jwt_ret.ok
        /\ rq_last.token = jwt_ret.token
        /\ token = rq_last.token
        /\ rq_last.left = jwt_ret.left
        /\ rq_last.left > 60
        /\ jwt_ret.at + rq_last.delay = now

\* a retry for which the token cached by the earlier attempts had come
\* within a minute of its expiry and was replaced
C8_Witness ==
    /\ rq_last.http
    /\ rq_last.attempt >= 1
    /\ ~jwt_ret.cached
    /\ jwt_ret.before # NoToken
    /\ jwt_ret.at >= jwt_ret.beforeExpiry - 60
    /\ rq_last.token = current_token

AssociationRequests ==
    {"POST /betaTesters/id/relationships/apps", "GET /builds",
     "POST /builds/id/relationships/individualTesters"}

\* C9 as stated: invite_tester sends the creation request only when the
\* lookup answered that no tester has the e-mail address.
C9_CreateOnlyIfLookupSaidAbsent ==
    ("POST /betaTesters" \in iv.sent) => iv.lookup = "absent"

\* C9: invite_tester sends the creation request exactly when
\* _find_existing_tester returned no tester, which is when the lookup
\* answered with no tester or raised an error; when the lookup found the
\* tester, that tester's identifier is used and no creation is sent.
C9_CreateIffLookupReturnedNone ==
    /\ ("POST /betaTesters" \in iv.called) <=> (iv.lookup \in {"absent", "error"})
    /\ ("POST /betaTesters" \in iv.sent) => (iv.lookup \in {"absent", "error"})
    /\ (iv.lookup \in {"absent", "error"} /\ CanSign(private_key)
           /\ (iv_pc # "create" \/ rq_last.attempt >= 0))
          => "POST /betaTesters" \in iv.sent
    /\ iv.lookup = "found" =>
          /\ iv.tester_id = "existing"
          /\ "POST /betaTesters" \notin iv.called
          /\ iv.create = "none"
    /\ iv.tester_id = "created" => iv.create = "returned"

\* the lookup raised and the tester was created all the same
C9_Witness ==
    /\ iv.lookup = "error"
    /\ "POST /betaTesters" \in iv.sent
    /\ iv.tester_id = "created"

\* C10: when the creation request of invite_tester raises, invite_tester
\* raises that error and sends no app association, no build lookup and no
\* build association.
C10_CreateFailureEndsInvite ==
    iv.create = "raised" =>
        /\ iv_pc = "raised"
        /\ iv.error.op = "raise"
        /\ iv.error = rq_result
        /\ iv.called \cap AssociationRequests = {}
        /\ iv.sent \cap AssociationRequests = {}
        /\ iv.status = "none"

\* the creation was sent and failed after its retries were used up
C10_Witness ==
    /\ iv.create = "raised"
    /\ "POST /betaTesters" \in iv.sent
    /\ iv_pc = "raised"
    /\ iv.error.kind = "status"
    /\ rq_last.attempt = max_retries

AppEdgeRequest == "POST /betaTesters/id/relationships/apps"
BuildEdgeRequest == "POST /builds/id/relationships/individualTesters"

\* C11: when the request of _add_tester_to_app or _add_tester_to_build ends
\* in an error with status code 409, the helper returns and invite_tester
\* goes on (to the build lookup, or to its result); when it ends in any other
\* error, invite_tester raises that very error; a returned request goes on
\* as well.
C11_ConflictIsSuccess ==
    [][(iv_pc \in {"add_app", "add_build"} /\ iv_pc' # iv_pc) =>
          /\ (rq_pc = "raised" /\ rq_result.status_code = 409) =>
                /\ iv_pc' = (IF iv_pc = "add_app" THEN "get_build" ELSE "returned")
                /\ (IF iv_pc = "add_app" THEN iv'.app_edge ELSE iv'.build_edge)
                      = "conflict"
          /\ (rq_pc = "raised" /\ rq_result.status_code # 409) =>
                /\ iv_pc' = "raised"
                /\ iv'.error = rq_result
          /\ rq_pc = "returned" => iv_pc' # "raised"]_vars

\* both associations answered 409 after their retries and the invitation
\* returned
C11_Witness ==
    /\ iv_pc = "returned"
    /\ iv.app_edge = "conflict"
    /\ iv.build_edge = "conflict"
    /\ rq_http = max_retries + 1

\* C12 as stated: once the latest build is known, the tester-build request
\* is made exactly when the build is ready (PROCESSING_COMPLETE or
\* READY_FOR_BETA_TESTING), and for a build that is not ready the call
\* does not fail.
C12_BuildEdgeIffReady ==
    iv.build_state # "none" =>
        /\ (BuildEdgeRequest \in iv.called) <=> IsReady(iv.build_state)
        /\ ~IsReady(iv.build_state) => iv_pc # "raised"

\* C13 as stated: the status 'invited' is reported only when both the
\* tester-app edge and the tester-build edge were created or already existed.
C13_InvitedOnlyWithBothEdges ==
    iv.status = "invited" =>
        /\ iv.app_edge \in {"added", "conflict"}
        /\ iv.build_edge \in {"added", "conflict"}

\* C14: duplication alone never makes invite_tester fail: a lookup that
\* answers with the tester leads to the app association without a creation
\* request; an invitation never ends in the 409 of an association; and an
\* invitation whose tester was found and whose two associations answered
\* 409 returns with status 'invited'.
C14_DuplicationAloneNeverFails ==
    /\ [][(iv_pc = "lookup" /\ iv_pc' # iv_pc
             /\ rq_pc = "returned" /\ rq_result.body = "item") =>
              /\ iv_pc' = "add_app"
              /\ iv'.lookup = "found"
              /\ "POST /betaTesters" \notin iv'.called]_vars
    /\ [](/\ iv.lookup = "found" => iv.create = "none"
          /\ (iv_pc = "raised" /\ iv.error.status_code = 409) =>
                (iv.app_edge # "raise" /\ iv.build_edge # "raise")
          /\ (iv.lookup = "found" /\ iv.app_edge = "conflict"
                /\ iv.build_edge = "conflict") =>
                (iv_pc = "returned" /\ iv.status = "invited"))

\* a second invitation of a tester already on the app and on the build:
\* the tester is found, both associations answer 409, and the call returns
C14_Witness ==
    /\ iv_pc = "returned"
    /\ iv.lookup = "found"
    /\ iv.tester_id = "existing"
    /\ iv.app_edge = "conflict"
    /\ iv.build_edge = "conflict"
    /\ iv.status = "invited"

\* entries of the batch whose invite_tester call has ended
BatchCompleted == IF batch.pc = "entry" THEN batch.i - 1 ELSE batch.i
\* entries recorded in the three lists of the summary
BatchRecorded ==
    Len(batch.successful) + Len(batch.failed) + Len(batch.already_invited)
\* how many of the three lists are one longer after a step, the others
\* being as they were
ListsGrownByOne ==
    Cardinality({k \in {"successful", "failed", "already_invited"} :
                    Len(batch'[k]) = Len(batch[k]) + 1})
ListsUnchanged ==
    Cardinality({k \in {"successful", "failed", "already_invited"} :
                    batch'[k] = batch[k]})
CountersGrownByOne ==
    Cardinality({k \in {"successful", "failed", "warnings"} :
                    chk'.progress[k] = chk.progress[k] + 1})
CountersUnchanged ==
    Cardinality({k \in {"successful", "failed", "warnings"} :
                    chk'.progress[k] = chk.progress[k]})

\* C15: in invite_multiple_testers the three lists together hold one record
\* per completed entry, and all testers at the end; in
\* check_invitation_status successful + failed + warnings = processed = the
\* number of statuses, and = total at the end; every completed entry adds
\* one to processed and to exactly one list or counter.
C15_CountersPartitionProcessed ==
    /\ [](/\ BatchRecorded = BatchCompleted
          /\ batch.pc = "returned" => BatchRecorded = Len(batch.testers)
          /\ chk.progress.successful + chk.progress.failed
                + chk.progress.warnings = chk.progress.processed
          /\ chk.progress.processed = Len(chk.statuses)
          /\ chk.pc = "returned" =>
                /\ chk.progress.processed = chk.progress.total
                /\ chk.progress.total = Len(chk.emails))
    /\ [][(batch.pc = "entry" /\ batch' # batch) =>
             /\ BatchRecorded' = BatchRecorded + 1
             /\ ListsGrownByOne = 1
             /\ ListsUnchanged = 2]_vars
    /\ [][(chk.pc \in {"lookup", "assoc"} /\ chk'.statuses # chk.statuses) =>
             /\ chk'.progress.processed = chk.progress.processed + 1
             /\ Len(chk'.statuses) = Len(chk.statuses) + 1
             /\ CountersGrownByOne = 1
             /\ CountersUnchanged = 2]_vars

\* a batch of two ended with one entry successful and one failed
C15_Witness ==
    /\ batch.pc = "returned"
    /\ Len(batch.testers) = 2
    /\ Len(batch.successful) = 1
    /\ Len(batch.failed) = 1

\* C16: an invite_tester call that raises is recorded under the entry's
\* address in 'failed' or 'already_invited' and the loop goes on with the
\* next tester, so the batch returns only after its last tester; the batch
\* raises only from the app lookup before the loop, with no invite_tester
\* call made and nothing recorded.
C16_EntryFailureDoesNotAbort ==
    /\ [](/\ batch.pc = "raised" =>
                /\ batch.i = 0
                /\ BatchRecorded = 0
                /\ iv = NoInvite
                /\ rq_endpoint = "GET /apps"
          /\ batch.pc = "returned" => batch.i = Len(batch.testers))
    /\ [][(batch.pc = "entry" /\ iv_pc = "raised" /\ batch' # batch) =>
             /\ Len(batch'.failed) + Len(batch'.already_invited)
                   = Len(batch.failed) + Len(batch.already_invited) + 1
             /\ \E k \in {"failed", "already_invited"} :
                   /\ Len(batch'[k]) = Len(batch[k]) + 1
                   /\ batch'[k][Len(batch'[k])].email = batch.testers[batch.i]
                   /\ batch'[k][Len(batch'[k])].error = ErrorText(iv.error)
             /\ IF batch.i < Len(batch.testers)
                THEN batch'.pc = "entry" /\ batch'.i = batch.i + 1
                ELSE batch'.pc = "returned"]_vars

\* the first tester's invitation failed on a persistent 500 or a refusal and
\* the second tester was invited all the same
C16_Witness ==
    /\ batch.pc = "returned"
    /\ Len(batch.testers) = 2
    /\ Len(batch.failed) = 1
    /\ batch.failed[1].email = batch.testers[1]
    /\ Len(batch.successful) = 1
    /\ batch.successful[1].email = batch.testers[2]

\* the summary read as one list: successful, then failed, then
\* already_invited
SummaryEmails ==
    [k \in 1..BatchRecorded |->
        IF k <= Len(batch.successful) THEN batch.successful[k].email
        ELSE IF k <= Len(batch.successful) + Len(batch.failed)
        THEN batch.failed[k - Len(batch.successful)].email
        ELSE batch.already_invited[k - Len(batch.successful)
                                      - Len(batch.failed)].email]

InputIndex(email) == CHOOSE k \in 1..Len(batch.testers) : batch.testers[k] = email

\* a list of the summary keeps the order of the input
InInputOrder(list) ==
    \A j, k \in 1..Len(list) :
        j < k => InputIndex(list[j].email) < InputIndex(list[k].email)

WithStatus(v) == {k \in 1..Len(chk.statuses) : chk.statuses[k].status = v}

\* C18 as stated: the counter an entry adds to is given by its status:
\* invited adds to successful, a tester that exists without being associated
\* adds to warnings, error adds to failed, and nothing else adds anything.
C18_CounterFollowsStatus ==
    /\ chk.progress.successful = Cardinality(WithStatus("invited"))
    /\ chk.progress.warnings = Cardinality(WithStatus("exists_not_invited"))
    /\ chk.progress.failed = Cardinality(WithStatus("error"))

\* C19 as stated: an entry whose remote request ended in an error is
\* recorded as an error with an error text, in the status check as in the
\* batch.
C19_FailedRequestsAreErrors ==
    /\ \A k \in 1..Len(chk.statuses) :
          chk.statuses[k].request = "raised" =>
              /\ chk.statuses[k].status = "error"
              /\ chk.statuses[k].error_message # "none"
    /\ \A k \in 1..Len(batch.failed) : batch.failed[k].error # "none"

\* the directory holds everything the constructor asks for
CredentialsComplete ==
    /\ credentials.env_file
    /\ credentials.key_id /\ credentials.issuer_id /\ credentials.key_path
    /\ credentials.key_file \in PrivateKeys

\* C20: the constructor returns a client exactly when the credentials file
\* exists, the three settings are set, and the key file exists, parses and
\* holds an elliptic-curve key; a client that exists has the three settings
\* and an elliptic-curve private_key; and without a client no token is
\* signed and no request is made.
C20_ConstructionFailsFast ==
    /\ client.pc # "new" =>
          (client.pc = "constructed" <=> CredentialsComplete)
    /\ client.pc = "failed" => client.error # "none"
    /\ client.pc = "constructed" =>
          /\ client.api_key_id /\ client.issuer_id /\ client.private_key_path
          /\ private_key \in PrivateKeys
          /\ IsEllipticCurve(private_key)
    /\ client.pc # "constructed" =>
          /\ signCount = 0 /\ ~jwt_ret.called
          /\ rq_pc = "idle" /\ rq_http = 0 /\ calls = 0

\* the constructor refused an RSA key in an otherwise complete directory
C20_Witness ==
    /\ client.pc = "failed"
    /\ credentials.env_file
    /\ credentials.key_id /\ credentials.issuer_id /\ credentials.key_path
    /\ credentials.key_file = "rsa"
    /\ client.error = "load_failed"

\* C26 as stated: a newly signed token is recorded in the cache with the
\* expiry "generation time + 20 minutes", and the exp claim placed in the
\* token is that same instant.
C26_ExpiryIsIssuedPlusWindow ==
    (jwt_ret.called /\ jwt_ret.ok /\ ~jwt_ret.cached) =>
        /\ token_expires_at = jwt_ret.at + TOKEN_EXPIRY_MINUTES * 60
        /\ jwt_ret.token.expiry = token_expires_at
        /\ jwt_ret.token.exp = token_expires_at

\* C27 as stated: a call made while a token is cached and its expiry window
\* has not ended returns that token, without signing.
C27_SameTokenWithinWindow ==
    (/\ jwt_ret.called /\ jwt_ret.ok
     /\ jwt_ret.before # NoToken
     /\ jwt_ret.at < jwt_ret.beforeExpiry) =>
        /\ jwt_ret.cached
        /\ jwt_ret.token = jwt_ret.before

\* C27: a call made while a token is cached that has more than 60 seconds
\* left returns that token and leaves the cache as it is; and a signing
\* operation takes place only in a call that found no such token.
C27_SameTokenOutsideMargin ==
    /\ []((/\ jwt_ret.called
           /\ jwt_ret.before # NoToken
           /\ jwt_ret.beforeExpiry # NoExpiry
           /\ jwt_ret.at < jwt_ret.beforeExpiry - RefreshMarginSeconds) =>
              /\ jwt_ret.ok /\ jwt_ret.cached
              /\ jwt_ret.token = jwt_ret.before
              /\ token_expires_at = jwt_ret.beforeExpiry)
    /\ [][signCount' # signCount =>
             /\ signCount' = signCount + 1
             /\ jwt_ret'.called /\ ~jwt_ret'.cached
             /\ ~(/\ jwt_ret'.before # NoToken
                  /\ jwt_ret'.beforeExpiry # NoExpiry
                  /\ jwt_ret'.at < jwt_ret'.beforeExpiry - RefreshMarginSeconds)
         ]_vars

\* a second call, 1139 seconds after the token was signed, got the same
\* token back
C27_Witness ==
    /\ jwt_ret.called /\ jwt_ret.ok /\ jwt_ret.cached
    /\ jwt_ret.at = 1139
    /\ jwt_ret.token = jwt_ret.before
    /\ jwt_ret.token.expiry = 1200
    /\ signCount = 1

\* the function that ran its request to the end is get_app_id, or
\* get_latest_build called on its own
LookupEnded(fn) == lk.fn = fn /\ lk.pc \in {"returned", "raised"}
AnswerWithoutData == rq_pc = "returned" /\ rq_result.body # "item"

\* C21: get_app_id raises when the remote's answer holds no app and
\* get_latest_build raises when it holds no build of the app; what either
\* returns is never empty: an app id, or a build with its processing state.
C21_ZeroMatchesRaise ==
    /\ (LookupEnded("get_app_id") /\ AnswerWithoutData) =>
           /\ lk.pc = "raised"
           /\ lk.error = Raise("no_app", NoStatus, "none")
    /\ (LookupEnded("get_latest_build") /\ AnswerWithoutData) =>
           /\ lk.pc = "raised"
           /\ lk.error.kind = IF rq_endpoint = "GET /apps" THEN "no_app"
                              ELSE "no_builds"
           /\ rq_endpoint = "GET /builds" =>
                  {b \in lk.builds : b.app = lk.app_id} = {}
    /\ (LookupEnded("get_app_id") /\ lk.pc = "returned") =>
           /\ lk.app_id \in Apps
           /\ rq_pc = "returned" /\ rq_result.body = "item"
    /\ (LookupEnded("get_latest_build") /\ lk.pc = "returned") =>
           /\ lk.build # NoBuild
           /\ lk.build.state \in BuildStates
           /\ rq_pc = "returned" /\ rq_result.body = "item"
    /\ (lk.fn \in {"get_app_id", "get_latest_build"} /\ lk.pc = "raised") =>
           lk.error # NoResult

\* get_latest_build raised because the app has no build, while the remote
\* held a build of another app
C21_Witness ==
    /\ LookupEnded("get_latest_build")
    /\ lk.pc = "raised"
    /\ lk.error = Raise("no_builds", NoStatus, "none")
    /\ lk.app_id = "app"
    /\ lk.builds = {[app |-> "other", uploaded |-> 2]}
    /\ AnswerWithoutData

\* C22: what get_latest_build returns is, among the builds the remote holds
\* for the given app, one with the latest upload date; its request filters
\* by that app, sorts by upload date descending and limits the answer to 1.
C22_LatestBuildOfApp ==
    (lk.pc = "returned" /\ lk.fn # "get_app_id" /\ ~lk.by_id
        /\ lk.build # NoBuild) =>
        /\ lk.query = [filter_app |-> lk.app_id, sort |-> "-uploadedDate",
                       limit |-> 1]
        /\ rq_endpoint = "GET /builds"
        /\ lk.build.app = lk.app_id
        /\ [app |-> lk.build.app, uploaded |-> lk.build.uploaded] \in lk.builds
        /\ \A b \in lk.builds :
              b.app = lk.app_id => b.uploaded <= lk.build.uploaded

\* the remote held two builds of the app and a later-numbered build of the
\* other app; get_latest_build returned the later build of the app
C22_Witness ==
    /\ lk.pc = "returned" /\ lk.fn = "get_latest_build"
    /\ lk.app_id = "app"
    /\ lk.builds = RemoteBuilds
    /\ lk.build.app = "app" /\ lk.build.uploaded = 2

\* C23 as stated: a build check that returns reports the build ready exactly
\* when its processing state is PROCESSING_COMPLETE or READY_FOR_BETA_TESTING,
\* in StatusChecker.check_build_status and in the command line's check alike.
C23_ReadyIffCompleteOrBeta ==
    (/\ lk.pc = "returned"
     /\ lk.fn \in {"check_build_status", "cli_check_build_status"}
     /\ lk.build # NoBuild) =>
        (lk.ready <=> IsReady(lk.build.state))

\* a request GET /apps begins in this step
AppLookupBegins ==
    /\ rq_endpoint' = "GET /apps"
    /\ rq_pc' = "running"
    /\ rq_pc # "running"

\* C24: in a batch the app is looked up at most once: a GET /apps request
\* begins only when invite_multiple_testers starts without app_id, never
\* when it starts with one and never again once the loop runs; every
\* invite_tester call of the loop has the batch's app_id and makes no app
\* lookup of its own.
C24_AppResolvedAtMostOnce ==
    /\ [](batch.pc # "idle" =>
             /\ "GET /apps" \notin iv.called \cup iv.sent
             /\ iv_pc # "get_app"
             /\ batch.pc = "entry" => batch.app_id # "none"
             /\ rq_endpoint = "GET /apps" => batch.pc \in {"get_app", "raised"})
    /\ [][(chk.pc = "idle" /\ chk'.pc = "idle" /\ AppLookupBegins) =>
             /\ batch.pc = "idle"
             /\ batch'.pc = "get_app"
             /\ batch'.app_id = "none"]_vars
    /\ [][batch'.pc = "get_app" => batch.pc \in {"idle", "get_app"}]_vars

\* a batch that started without app_id is at its second entry, whose
\* invite_tester call has gone on to the app association without any
\* GET /apps
C24_Witness ==
    /\ batch.pc = "entry" /\ batch.i = 2
    /\ batch.app_id = "app"
    /\ iv_pc = "add_app"
    /\ iv.called = {"GET /betaTesters", "POST /betaTesters/id/relationships/apps"}

\* C25: while check_invitation_status runs, no counter of its progress
\* record decreases and total stays; processed counts the entries completed
\* so far, and 0 <= processed <= total in every state.
C25_ProgressMonotone ==
    /\ [](/\ 0 <= chk.progress.processed
          /\ chk.progress.processed <= chk.progress.total
          /\ chk.progress.processed = Len(chk.statuses)
          /\ chk.progress.successful >= 0
          /\ chk.progress.failed >= 0
          /\ chk.progress.warnings >= 0
          /\ chk.pc # "idle" => chk.progress.total = Len(chk.emails))
    /\ [][(chk.pc # "idle" /\ chk'.pc # "idle") =>
             /\ chk'.progress.total = chk.progress.total
             /\ chk'.progress.processed >= chk.progress.processed
             /\ chk'.progress.successful >= chk.progress.successful
             /\ chk'.progress.failed >= chk.progress.failed
             /\ chk'.progress.warnings >= chk.progress.warnings]_vars

\* two entries are complete: the first was not found, the second was
C25_Witness ==
    /\ chk.pc = "returned"
    /\ chk.progress.total = 2
    /\ chk.progress.processed = 2
    /\ chk.progress.failed = 1
    /\ chk.progress.successful = 1
    /\ chk.statuses[1].status = "not_invited"

\* some call of generate_jwt_token ran while another thread was inside it
Overlapped == \E t \in Threads : th[t].overlapped

\* thread t has signed a token and not yet written it to the cache in full
Refreshing(t) == th[t].pc \in {"write_token", "write_expiry"}

\* a thread holds a newly signed token only when no other thread holds one
\* and the cache did not hold another token with more than a minute left
OneSigningPerRefresh ==
    \A t \in Threads :
        Refreshing(t) =>
            /\ \A u \in Threads \ {t} : ~Refreshing(u)
            /\ ~(/\ current_token \notin {NoToken, th[t].token}
                 /\ token_expires_at # NoExpiry
                 /\ th[t].now < token_expires_at - RefreshMarginSeconds)

\* C28 as stated: whatever the interleaving of two callers, at most one
\* signing operation is performed for one refresh of the cache.
C28_RefreshIsCriticalSection == OneSigningPerRefresh

\* C28: as long as no two calls of generate_jwt_token have overlapped, at
\* most one signing operation is performed for one refresh of the cache.
C28_OneSigningUnlessCallsOverlap == Overlapped \/ OneSigningPerRefresh

\* thread A signed, and thread B, called after A had returned, got the
\* cached token without signing
C28_Witness ==
    /\ ~Overlapped
    /\ signCount = 1
    /\ th["A"].pc = "returned" /\ th["B"].pc = "returned"
    /\ th["A"].ret = th["B"].ret
    /\ th["A"].ret.id = 1
    /\ th["B"].token = NoToken

\* every token returned has more than a minute left at the clock its call
\* read, and the cache never pairs a token with an expiry later than its own
FreshAndPaired ==
    /\ \A t \in Threads :
          th[t].pc = "returned" =>
              th[t].ret.expiry - th[t].now > RefreshMarginSeconds
    /\ (current_token # NoToken /\ token_expires_at # NoExpiry) =>
           token_expires_at <= current_token.expiry

\* C29 as stated: under any interleaving of concurrent callers no caller is
\* returned a token with 60 seconds or less left, and the cached token is
\* never paired with an expiry later than its own.
C29_NoStaleTokenUnderInterleaving == FreshAndPaired

\* C29: as long as no two calls of generate_jwt_token have overlapped, no
\* caller is returned a token with 60 seconds or less left, and the cached
\* token is never paired with an expiry later than its own.
C29_NoStaleTokenUnlessCallsOverlap == Overlapped \/ FreshAndPaired

\* without any overlap, a call at 1140 found the token of 0 with a minute
\* left and returned a new one
C29_Witness ==
    /\ ~Overlapped
    /\ th["A"].pc = "returned"
    /\ th["A"].now = 1140
    /\ th["A"].ret = [id |-> 2, expiry |-> 2340, exp |-> 2340]
    /\ current_token = th["A"].ret
    /\ token_expires_at = 2340

\* C30 as stated: a batch is aborted between entries only: when it ends by
\* the caller's abort, no request was cut in flight and no entry was cut
\* short of its outcome.
C30_AbortOnlyBetweenEntries ==
    batch.pc = "interrupted" =>
        /\ rq_pc # "interrupted"
        /\ iv_pc # "interrupted"

\* the emails of the four detailed lists of the report r that hold i
ListsHolding(r, i) ==
    {l \in {"invited_testers", "not_invited_testers", "error_testers",
            "exists_not_invited_testers"} :
        \E j \in 1..Len(r[l]) : r[l][j] = i}

C32_JsonRoundTripKeepsCounts ==
    rep.pc = "loaded" =>
        \A k \in SummaryCounts :
            IF rep.report.has_summary
            THEN rep.loaded[k] = [type |-> "int", value |-> rep.report[k]]
            ELSE rep.loaded[k].type = "NoneType"

\* a report whose counts take two digits was saved and read back
C32_Witness ==
    /\ rep.pc = "loaded" /\ rep.report.has_summary
    /\ rep.report.errors >= 10
    /\ rep.loaded["errors"].value = rep.report.errors

\* the recommendations of the report r about the category item
About(r, item) ==
    {j \in 1..Len(r.recommendations) : r.recommendations[j].item = item}

\* C34: a generated report recommends reviewing the failed invitations iff
\* errors > 0, adding the existing testers iff exists_but_not_invited > 0 and
\* inviting the new testers iff not_invited > 0, each once and with the
\* category's count; without statuses, or with an empty list, there is no
\* recommendation and no division by zero
C34_RecommendationsMatchCounts ==
    rep.pc \in {"generated", "saved", "loaded"} =>
        LET r == rep.report
            Matches(item, count) ==
                /\ Cardinality(About(r, item)) = IF count > 0 THEN 1 ELSE 0
                /\ \A j \in About(r, item) :
                      TextToInt(r.recommendations[j].n) = count
        IN /\ ~r.raised
           /\ Matches("review_failed", r.errors)
           /\ Matches("add_existing", r.exists_but_not_invited)
           /\ Matches("send_new", r.not_invited)
           /\ Len(r.recommendations) <= 3
           /\ (~rep.given \/ rep.statuses = <<>>) =>
                 r.recommendations = <<>> /\ ~r.has_summary

\* a report with all three recommendations was generated
C34_Witness ==
    /\ rep.pc = "generated"
    /\ Len(rep.report.recommendations) = 3
    /\ rep.report.errors > 0 /\ rep.report.exists_but_not_invited > 0
    /\ rep.report.not_invited > 0

\* C35: when the lookup request of invite_tester ends in an API error,
\* whatever its kind, _find_existing_tester swallows it and invite_tester
\* goes on to the creation request with the tester taken for absent; it does
\* not end at the lookup.
C35_LookupErrorLeadsToCreate ==
    [][(iv_pc = "lookup" /\ iv_pc' # iv_pc /\ rq_pc = "raised") =>
          /\ iv_pc' = "create"
          /\ iv'.lookup = "error"
          /\ iv'.tester_id = "none"
          /\ iv'.error = iv.error
          /\ iv'.called = iv.called \cup {"POST /betaTesters"}
          /\ rq_endpoint' = "POST /betaTesters"
          /\ rq_pc' = "running"]_vars

\* the creation request is running after a lookup that raised
C35_Witness ==
    /\ iv_pc = "create"
    /\ iv.lookup = "error"
    /\ rq_pc = "running" /\ rq_endpoint = "POST /betaTesters"
    /\ rq_http > 0

\* the place of a request in the sequence of invite_tester
Rank(ep) ==
    CASE ep = "GET /apps" -> 0
      [] ep = "GET /betaTesters" -> 1
      [] ep = "POST /betaTesters" -> 2
      [] ep = AppEdgeRequest -> 3
      [] ep = "GET /builds" -> 4
      [] ep = BuildEdgeRequest -> 5

\* C36: the requests of one invite_tester call are made in the order tester
\* lookup, tester creation (only when the lookup returned no tester), app
\* association, build lookup, build association, none of the others being
\* left out before a later one; when the app association ends in an error
\* other than 409, or the build lookup fails, the call raises and makes no
\* further request.
C36_RequestsInFixedOrder ==
    [][/\ \A ep \in iv'.called \ iv.called :
             /\ \A e \in iv.called : Rank(e) < Rank(ep)
             /\ Rank(ep) >= 2 => "GET /betaTesters" \in iv.called
             /\ Rank(ep) = 2 => iv'.lookup # "found"
             /\ Rank(ep) = 3 =>
                   (("POST /betaTesters" \in iv.called) <=> iv'.lookup # "found")
             /\ Rank(ep) >= 4 => AppEdgeRequest \in iv.called
             /\ Rank(ep) = 5 => "GET /builds" \in iv.called
       /\ (/\ iv_pc = "add_app" /\ iv_pc' # iv_pc
           /\ rq_pc = "raised" /\ rq_result.status_code # 409) =>
             iv_pc' = "raised" /\ iv'.called = iv.called
       /\ (/\ iv_pc = "get_build" /\ iv_pc' # iv_pc
           /\ ~(rq_pc = "returned" /\ rq_result.body = "item")) =>
             iv_pc' = "raised" /\ iv'.called = iv.called
       /\ iv_pc = "raised" =>
             /\ iv_pc' \in {"raised", "idle"}
             /\ iv_pc' = "raised" => iv'.called = iv.called]_vars

\* all five requests of the sequence were made in one call
C36_Witness ==
    /\ iv_pc = "returned"
    /\ iv.called = {"GET /betaTesters", "POST /betaTesters", AppEdgeRequest,
                    "GET /builds", BuildEdgeRequest}
    /\ iv.sent = iv.called

\* C38: check_invitation_status appends one InvitationStatus per e-mail
\* address in input order, so what it returns has the length of the input
\* and statuses[i].email = emails[i], whatever the remote answered; an
\* entry carries a tester_id exactly when its status is invited or
\* exists_not_invited.
C38_OneStatusPerEmailInOrder ==
    /\ Len(chk.statuses) <= Len(chk.emails)
    /\ chk.pc = "returned" => Len(chk.statuses) = Len(chk.emails)
    /\ \A k \in 1..Len(chk.statuses) :
          /\ chk.statuses[k].email = chk.emails[k]
          /\ (chk.statuses[k].tester_id # "none")
                <=> (chk.statuses[k].status \in {"invited", "exists_not_invited"})

\* two addresses were checked: the first is an invited tester, the second
\* has no tester
C38_Witness ==
    /\ chk.pc = "returned"
    /\ Len(chk.statuses) = 2
    /\ chk.statuses[1].status = "invited"
    /\ chk.statuses[1].tester_id = "id"
    /\ chk.statuses[2].status = "not_invited"
    /\ chk.statuses[2].tester_id = "none"
    /\ chk.statuses[2].email = chk.emails[2]

\* the positions of the address t in the sequence q
Places(q, t) == {k \in 1..Len(q) : q[k] = t}

\* C37 as stated: validate_emails_dry_run puts every stripped input address
\* in 'valid' when it matches the pattern and in 'invalid' otherwise, never
\* in both; 'valid' has no duplicates, and its addresses keep the relative
\* order in which they were supplied.
C37_ValidPartitionInInputOrder ==
    cli.pc \in {"validated", "get_app", "done"} =>
        /\ \A k \in 1..Len(cli.emails) :
              LET t == Strip(cli.emails[k]) IN
              /\ EmailPattern(t) <=> Places(cli.valid, t) # {}
              /\ ~EmailPattern(t) <=> Places(cli.invalid, t) # {}
        /\ \A k \in 1..Len(cli.valid) :
              /\ Places(cli.valid, cli.valid[k]) = {k}
              /\ \E i \in 1..Len(cli.emails) : Strip(cli.emails[i]) = cli.valid[k]
        /\ \A k \in 1..Len(cli.invalid) :
              \E i \in 1..Len(cli.emails) : Strip(cli.emails[i]) = cli.invalid[k]
        /\ \A k, l \in 1..Len(cli.valid) :
              k < l =>
                \E i, j \in 1..Len(cli.emails) :
                    /\ i < j
                    /\ Strip(cli.emails[i]) = cli.valid[k]
                    /\ Strip(cli.emails[j]) = cli.valid[l]

\* C33 as stated: the default mode, given at least one valid address and
\* credentials that work, does not end without having run the invitation
\* workflow for the valid addresses and reported each of them.
C33_DefaultModeInvitesValidAddresses ==
    (cli.pc = "done" /\ cli.fn = "send" /\ cli.valid # <<>>
        /\ cli.app_id # "none") =>
        /\ cli.error = "none"
        /\ Len(cli.results) = Len(cli.valid)

\* C39: wait_for_build_ready ends. It polls only while the timeout has not
\* elapsed and returns the status of the first poll that is ready; once the
\* timeout has elapsed it makes one final check and returns its status,
\* ready or not, and with timeout 0 that is its only check; an error raised
\* by a check leaves the wait at once, with no further check.
C39_WaitTerminates ==
    /\ [](/\ wt.finals <= 1
          /\ wt.pc = "poll" =>
                wt.finals = 0 /\ wt.checked_at - wt.start_time < wt.timeout_delta
          /\ wt.pc = "final" =>
                wt.finals = 1 /\ wt.checked_at - wt.start_time >= wt.timeout_delta
          /\ (wt.pc # "idle" /\ wt.timeout_delta = 0) => wt.polls = 0
          /\ wt.pc = "returned" =>
                IF wt.finals = 1
                THEN wt.checked_at - wt.start_time >= wt.timeout_delta
                ELSE wt.status.is_ready /\ wt.polls >= 1)
    /\ [][(wt.pc \in {"poll", "final"} /\ wt' # wt) =>
            /\ lk.pc = "raised" =>
                  /\ wt'.pc = "raised" /\ wt'.error = lk.error
                  /\ wt'.polls = wt.polls /\ wt'.finals = wt.finals
                  /\ lk'.pc = "idle" /\ rq_pc' = "idle"
            /\ (lk.pc = "returned" /\ lk.ready) =>
                  /\ wt'.pc = "returned" /\ wt'.status.is_ready
                  /\ wt'.polls = wt.polls /\ wt'.finals = wt.finals
            /\ (lk.pc = "returned" /\ wt.pc = "final") =>
                  /\ wt'.pc = "returned"
                  /\ wt'.status = [state |-> lk.build.state,
                                   is_ready |-> lk.ready]
            /\ (lk.pc = "returned" /\ wt.pc = "poll" /\ ~lk.ready) =>
                  /\ wt'.pc \in {"poll", "final"}
                  /\ now' = now + wt.check_interval
                  /\ wt'.polls + wt'.finals = wt.polls + wt.finals + 1]_vars
    /\ (wt.pc \in {"poll", "final"}) ~> (wt.pc \in {"returned", "raised"})

\* two polls saw a build that was not ready, the timeout elapsed and the
\* final check returned a status that is not ready either
C39_Witness ==
    /\ wt.pc = "returned"
    /\ wt.polls = 2 /\ wt.finals = 1
    /\ ~wt.status.is_ready

====
